---------------------------- MODULE Spec2Model ----------------------------
(***************************************************************************)
(* Model of the one-shot control clients ad4d.py (multi-channel family)    *)
(* and p10t.py (point-to-point family), and of the monitor monitor.py.     *)
(*                                                                         *)
(* Text is a sequence of atoms.  An atom is one whitespace or punctuation  *)
(* character (" ", "\r\n", "<", ">", "{", "}", "(", ")", ":") or a maximal *)
(* run of other characters (a word such as "FREQUENCY" or "518.475").  Two *)
(* word atoms are never adjacent, so equal texts have equal atom           *)
(* sequences.                                                              *)
(***************************************************************************)
EXTENDS Integers, Sequences, FiniteSets, TLC

VARIABLES
    args,     \* the command line of the invocation that ran last
    net,      \* what the network and the device did during that invocation
    opens,    \* sockets opened by the invocation (socket.create_connection calls)
    sent,     \* command lines written with sock.sendall, in order
    ret,      \* what send_command returned (NotCalled when it was not called)
    merged,   \* the bulk query's merged dict before formatting
    out,      \* what main printed on stdout (NotCalled when nothing)
    err,      \* the error main reported on stderr ("" when none)
    exit,     \* the process exit code
    device,   \* monitor.py: the --device it was started with
    pc,       \* monitor.py: where the process is
    conn,     \* monitor.py: the connection: "none", "up", "eof" or "reset"
    shutdown_requested,   \* monitor.py: the shutdown_requested event
    last_status,          \* monitor.py: main's last_status
    poll_index,   \* monitor.py: the index in POLL_COMMANDS of the next command
    buffer,   \* monitor.py: run_passive_monitor's buffer
    io,       \* monitor.py: what the environment did during the last step
    did,      \* monitor.py: what the process did during its last step
    hist      \* monitor.py: the account of what the process did so far

vars ==
    <<args, net, opens, sent, ret, merged, out, err, exit, device, pc, conn,
      shutdown_requested, last_status, poll_index, buffer, io, did, hist>>

---------------------------------------------------------------------------
(* Bounds of the model.                                                    *)

\* Longest sequence of frames a device sends during one read window.
MaxFrames == 2

---------------------------------------------------------------------------
(* Python values.                                                          *)

PyNone == [k |-> "None"]
PyStr(s) == [k |-> "str", s |-> s]
PyInt(n) == [k |-> "int", n |-> n]
\* A dict is its items in insertion order, each item <<key, value>>.
Dict(items) == [k |-> "dict", d |-> items]
NotCalled == [k |-> "NotCalled"]

\* Python truthiness of a value, as `if result:` tests it.
Truthy(v) ==
    CASE v.k = "None" -> FALSE
      [] v.k = "str"  -> v.s # <<>>
      [] v.k = "int"  -> v.n # 0
      [] v.k = "dict" -> v.d # <<>>
      [] OTHER        -> TRUE

DictKeys(d) == {d.d[i][1] : i \in 1..Len(d.d)}
DictGet(d, key) == (d.d[CHOOSE i \in 1..Len(d.d) : d.d[i][1] = key])[2]

\* d[key] = value: an existing key keeps its place, a new key is appended.
DictSet(d, key, value) ==
    IF key \in DictKeys(d)
    THEN Dict([i \in 1..Len(d.d) |->
                 IF d.d[i][1] = key THEN <<key, value>> ELSE d.d[i]])
    ELSE Dict(Append(d.d, <<key, value>>))

RECURSIVE DictUpdateItems(_, _)
DictUpdateItems(d, items) ==
    IF items = <<>> THEN d
    ELSE DictUpdateItems(DictSet(d, Head(items)[1], Head(items)[2]), Tail(items))

\* d.update(e)
DictUpdate(d, e) == DictUpdateItems(d, e.d)

\* e.pop(key), the dict that is left.
DictWithout(d, key) == Dict(SelectSeq(d.d, LAMBDA it : it[1] # key))

---------------------------------------------------------------------------
(* Text.                                                                   *)

Digits == <<"0", "1", "2", "3", "4", "5", "6", "7", "8", "9">>
IsDigit(a) == \E i \in 1..Len(Digits) : Digits[i] = a
\* int("7") and str(7) on one decimal digit.
IntOf(a) == (CHOOSE i \in 1..Len(Digits) : Digits[i] = a) - 1
StrOf(n) == Digits[n + 1]

IsWs(a) == a \in {" ", "\r\n"}
IsPunct(a) == a \in {"<", ">", "{", "}", "(", ")", ":"}

RECURSIVE LStrip(_)
LStrip(s) == IF s # <<>> /\ IsWs(Head(s)) THEN LStrip(Tail(s)) ELSE s
RECURSIVE RStrip(_)
RStrip(s) ==
    IF s # <<>> /\ IsWs(s[Len(s)]) THEN RStrip(SubSeq(s, 1, Len(s) - 1)) ELSE s
\* str.strip()
Strip(s) == RStrip(LStrip(s))

RECURSIVE LStripChars(_, _)
LStripChars(s, cs) ==
    IF s # <<>> /\ Head(s) \in cs THEN LStripChars(Tail(s), cs) ELSE s
RECURSIVE RStripChars(_, _)
RStripChars(s, cs) ==
    IF s # <<>> /\ s[Len(s)] \in cs
    THEN RStripChars(SubSeq(s, 1, Len(s) - 1), cs) ELSE s
\* str.strip(chars)
StripChars(s, cs) == RStripChars(LStripChars(s, cs), cs)

StartsWith(s, p) == Len(s) >= Len(p) /\ SubSeq(s, 1, Len(p)) = p

\* The k-th smallest element of a set of numbers.
Kth(S, k) == CHOOSE x \in S : Cardinality({y \in S : y < x}) = k - 1

\* The places where sep occurs in s.
Occurrences(s, sep) ==
    {i \in 1..(Len(s) - Len(sep) + 1) : SubSeq(s, i, i + Len(sep) - 1) = sep}

\* The occurrences str.split takes: left to right, never overlapping.
RECURSIVE SplitPoints(_, _, _)
SplitPoints(occ, from, n) ==
    LET next == {i \in occ : i >= from} IN
    IF next = {} THEN <<>>
    ELSE LET i == Kth(next, 1) IN <<i>> \o SplitPoints(occ, i + n, n)

\* str.split(sep): the parts between the occurrences of sep.
SplitAt(s, n, pts) ==
    [j \in 1..(Len(pts) + 1) |->
        SubSeq(s, IF j = 1 THEN 1 ELSE pts[j - 1] + n,
                  IF j > Len(pts) THEN Len(s) ELSE pts[j] - 1)]
SplitOn(s, sep) == SplitAt(s, Len(sep), SplitPoints(Occurrences(s, sep), 1, Len(sep)))

\* str.split(): the maximal runs of non-whitespace, each a text of its own.
WordStarts(s) == {i \in 1..Len(s) : ~IsWs(s[i]) /\ (i = 1 \/ IsWs(s[i - 1]))}
WordStops(s) == {i \in 1..Len(s) : ~IsWs(s[i]) /\ (i = Len(s) \/ IsWs(s[i + 1]))}
WordsAt(s, starts, stops) ==
    [j \in 1..Cardinality(starts) |-> SubSeq(s, Kth(starts, j), Kth(stops, j))]
Words(s) == WordsAt(s, WordStarts(s), WordStops(s))

---------------------------------------------------------------------------
(* Key registries.                                                         *)

Families == {"ad4d", "p10t"}

AD4D_DEVICE_GET_ONLY_KEYS ==
    <<"DEVICE_ID", "MODEL", "FW_VER", "RF_BAND", "TRANSMISSION_MODE",
      "QUADVERSITY_MODE", "ENCRYPTION_MODE">>
AD4D_DEVICE_GET_SET_KEYS == <<"DEVICE_ID">>
AD4D_CHANNEL_GET_SET_KEYS ==
    <<"CHAN_NAME", "AUDIO_GAIN", "AUDIO_MUTE", "FREQUENCY", "GROUP_CHANNEL",
      "METER_RATE", "FLASH">>
AD4D_CHANNEL_GET_ONLY_KEYS ==
    <<"FD_MODE", "ENCRYPTION_STATUS", "INTERFERENCE_STATUS",
      "UNREGISTERED_TX_STATUS", "AUDIO_LEVEL_PEAK", "AUDIO_LEVEL_RMS",
      "CHAN_QUALITY", "RSSI", "ANTENNA_STATUS", "TX_BATT_MINS", "TX_BATT_TYPE",
      "TX_MODEL", "TX_DEVICE_ID", "TX_POWER_LEVEL">>

P10T_DEVICE_GET_ONLY_KEYS == <<"DEVICE_NAME">>
P10T_DEVICE_GET_SET_KEYS == <<>>
P10T_CHANNEL_GET_SET_KEYS ==
    <<"CHAN_NAME", "AUDIO_IN_LVL", "GROUP_CHAN", "FREQUENCY", "RF_TX_LVL",
      "RF_MUTE", "AUDIO_TX_MODE", "AUDIO_IN_LINE_LVL", "METER_RATE">>
\* p10t.py has no CHANNEL_GET_ONLY_KEYS list.
P10T_CHANNEL_GET_ONLY_KEYS == <<>>

DEVICE_GET_ONLY_KEYS(fam) ==
    IF fam = "ad4d" THEN AD4D_DEVICE_GET_ONLY_KEYS ELSE P10T_DEVICE_GET_ONLY_KEYS
DEVICE_GET_SET_KEYS(fam) ==
    IF fam = "ad4d" THEN AD4D_DEVICE_GET_SET_KEYS ELSE P10T_DEVICE_GET_SET_KEYS
CHANNEL_GET_SET_KEYS(fam) ==
    IF fam = "ad4d" THEN AD4D_CHANNEL_GET_SET_KEYS ELSE P10T_CHANNEL_GET_SET_KEYS
CHANNEL_GET_ONLY_KEYS(fam) ==
    IF fam = "ad4d" THEN AD4D_CHANNEL_GET_ONLY_KEYS ELSE P10T_CHANNEL_GET_ONLY_KEYS

ALL_KEYS(fam) ==
    DEVICE_GET_ONLY_KEYS(fam) \o DEVICE_GET_SET_KEYS(fam)
        \o CHANNEL_GET_SET_KEYS(fam) \o CHANNEL_GET_ONLY_KEYS(fam)

\* `x in list`
In(x, list) == \E i \in 1..Len(list) : list[i] = x

\* A variant in which both families accept the channels of the
\* multi-channel family.
VALID_CHANNELS_Shared(fam) == <<"1", "2", "3", "4">>

\* The channel strings build_command accepts.
VALID_CHANNELS(fam) ==
    IF fam = "ad4d" THEN <<"1", "2", "3", "4">> ELSE <<"1", "2">>

\* The reply keyword of the family: "< REP " and "< REPORT ".
REPLY_KEYWORD(fam) == IF fam = "ad4d" THEN "REP" ELSE "REPORT"

---------------------------------------------------------------------------
(* Wire codec.                                                             *)

\* key.upper() on the spellings the command line is given in this model.
Upper(key) ==
    CASE key = "frequency" -> "FREQUENCY"
      [] key = "model"     -> "MODEL"
      [] OTHER             -> key

\* build_command: the address text, or the ValueError it raises.
\* "UnknownKey" is ValueError("Unknown key: ..."), "InvalidScope" is
\* ValueError("Channel must be ... for channel-level keys"); channel is the
\* --channel string, or NoArg when the option is absent.
NoArg == "<absent>"

\* A variant that rejects a device-level key given together with --channel.
build_command_Scoped(fam, channel, key) ==
    IF ~In(Upper(key), ALL_KEYS(fam)) THEN [ok |-> FALSE, error |-> "UnknownKey"]
    ELSE IF In(Upper(key), DEVICE_GET_ONLY_KEYS(fam))
              \/ In(Upper(key), DEVICE_GET_SET_KEYS(fam))
    THEN IF channel # NoArg THEN [ok |-> FALSE, error |-> "InvalidScope"]
         ELSE [ok |-> TRUE, addr |-> <<Upper(key)>>]
    ELSE IF ~In(channel, VALID_CHANNELS(fam))
    THEN [ok |-> FALSE, error |-> "InvalidScope"]
    ELSE [ok |-> TRUE, addr |-> <<channel, " ", Upper(key)>>]

\* A variant that returns the key as typed instead of key.upper().
build_command_AsTyped(fam, channel, key) ==
    IF ~In(Upper(key), ALL_KEYS(fam)) THEN [ok |-> FALSE, error |-> "UnknownKey"]
    ELSE IF In(Upper(key), DEVICE_GET_ONLY_KEYS(fam))
              \/ In(Upper(key), DEVICE_GET_SET_KEYS(fam))
    THEN [ok |-> TRUE, addr |-> <<key>>]
    ELSE IF ~In(channel, VALID_CHANNELS(fam))
    THEN [ok |-> FALSE, error |-> "InvalidScope"]
    ELSE [ok |-> TRUE, addr |-> <<channel, " ", key>>]

build_command(fam, channel, key) ==
    LET k == Upper(key) IN
    IF ~In(k, ALL_KEYS(fam)) THEN [ok |-> FALSE, error |-> "UnknownKey"]
    ELSE IF In(k, DEVICE_GET_ONLY_KEYS(fam)) \/ In(k, DEVICE_GET_SET_KEYS(fam))
    THEN [ok |-> TRUE, addr |-> <<k>>]
    ELSE IF ~In(channel, VALID_CHANNELS(fam))
    THEN [ok |-> FALSE, error |-> "InvalidScope"]
    ELSE [ok |-> TRUE, addr |-> <<channel, " ", k>>]

\* Words of this model that do not match [A-Z0-9_]+ (every other word does).
OtherWords ==
    {"518.475", "606.000", "Lead", "Vox", "Unit-A", "x", "error", "timed",
     "out", "no", "match", "data", "[Errno", "111]", "Connection", "refused",
     "104]", "reset", "by", "peer", "32]", "Broken", "pipe", NoArg}
IsKeyToken(a) == ~IsWs(a) /\ ~IsPunct(a) /\ a \notin OtherWords

\* The tail of REP_RE after the value: \}?\s*>?$
MatchTail(t) ==
    LET t1 == IF t # <<>> /\ Head(t) = "}" THEN Tail(t) ELSE t
        t2 == LStrip(t1)
    IN  t2 = <<>> \/ t2 = <<">">>

\* The lengths n of a value [^>}]+? at the head of body that let the tail match.
ValueLens(body) ==
    {n \in 1..Len(body) :
        /\ \A i \in 1..n : body[i] \notin {">", "}"}
        /\ MatchTail(SubSeq(body, n + 1, Len(body)))}
Min(S) == CHOOSE n \in S : \A m \in S : n <= m
Max(S) == CHOOSE n \in S : \A m \in S : n >= m

\* \{?([^>}]+?)\}?\s*>?$ on r: the value group (lazy), or NoMatch.
\* The optional "{" is tried taken first, then not taken.
NoMatch == [ok |-> FALSE]
ShortestValue(body, lens) ==
    IF lens = {} THEN NoMatch ELSE [ok |-> TRUE, value |-> SubSeq(body, 1, Min(lens))]
FirstOk(m1, m2) == IF m1.ok THEN m1 ELSE m2
MatchValue(r) ==
    FirstOk(IF r # <<>> /\ Head(r) = "{"
            THEN ShortestValue(Tail(r), ValueLens(Tail(r))) ELSE NoMatch,
            ShortestValue(r, ValueLens(r)))

\* Number of whitespace atoms at the head of s.
RECURSIVE LeadWs(_)
LeadWs(s) == IF s # <<>> /\ IsWs(Head(s)) THEN 1 + LeadWs(Tail(s)) ELSE 0

\* ([A-Z0-9_]+)\s+ then the value, on s: \s+ is greedy and gives back
\* whitespace to the value only when nothing else matches.  ks are the
\* lengths of \s+ with which the value matches.
KeyValueAt(key, r0, ks) ==
    IF ks = {} THEN NoMatch
    ELSE [ok |-> TRUE, key |-> key,
          value |-> MatchValue(SubSeq(r0, Max(ks) + 1, Len(r0))).value]
MatchKeyValue(s) ==
    IF s = <<>> \/ ~IsKeyToken(Head(s)) THEN NoMatch
    ELSE KeyValueAt(Head(s), Tail(s),
                    {k \in 1..LeadWs(Tail(s)) :
                        MatchValue(SubSeq(Tail(s), k + 1, Len(Tail(s)))).ok})

\* REP_RE.match(line): ^<\s*REP\s+(?:(\d)\s+)?([A-Z0-9_]+)\s+\{?([^>}]+?)\}?\s*>?$
\* The optional channel group is tried present first, then absent; b is the
\* text after "REP" and its whitespace.
WithChannel(b, m) ==
    IF m.ok THEN [ok |-> TRUE, channel |-> Head(b), key |-> m.key, value |-> m.value]
    ELSE NoMatch
WithoutChannel(m) ==
    IF m.ok THEN [ok |-> TRUE, channel |-> NoArg, key |-> m.key, value |-> m.value]
    ELSE NoMatch
AfterKeyword(b) ==
    FirstOk(IF b # <<>> /\ IsDigit(Head(b)) /\ LeadWs(Tail(b)) > 0
            THEN WithChannel(b, MatchKeyValue(LStrip(Tail(b)))) ELSE NoMatch,
            WithoutChannel(MatchKeyValue(b)))
AfterBracket(a) ==
    IF a = <<>> \/ Head(a) # "REP" \/ LeadWs(Tail(a)) = 0 THEN NoMatch
    ELSE AfterKeyword(LStrip(Tail(a)))
REP_RE(line) ==
    IF line = <<>> \/ Head(line) # "<" THEN NoMatch
    ELSE AfterBracket(LStrip(Tail(line)))

\* A dict literal {k1: v1, k2: v2}.
Dict2(k1, v1, k2, v2) == DictSet(DictSet(Dict(<<>>), k1, v1), k2, v2)
CHANNEL == PyStr(<<"channel">>)

\* ad4d.parse_report_line; m is REP_RE.match(line.strip()).
ad4d_parsed(m) ==
    IF ~m.ok THEN PyNone
    ELSE IF m.channel # NoArg
    THEN Dict2(CHANNEL, PyInt(IntOf(m.channel)),
               PyStr(<<m.key>>), PyStr(Strip(m.value)))
    ELSE Dict2(CHANNEL, PyNone, PyStr(<<m.key>>), PyStr(Strip(m.value)))
ad4d_parse_report_line(line) == ad4d_parsed(REP_RE(Strip(line)))

\* p10t.parse_report_line; parts is line.strip("<> ").split().
p10t_parsed(parts) ==
    IF Len(parts) < 3 \/ parts[1] # <<"REPORT">> THEN PyNone
    ELSE IF parts[2] \in {<<"1">>, <<"2">>}
    THEN Dict2(CHANNEL, PyInt(IntOf(parts[2][1])),
               PyStr(parts[3]), IF Len(parts) > 3 THEN PyStr(parts[4]) ELSE PyNone)
    ELSE Dict2(CHANNEL, PyNone,
               PyStr(parts[2]), IF Len(parts) > 2 THEN PyStr(parts[3]) ELSE PyNone)
p10t_parse_report_line(line) ==
    p10t_parsed(Words(StripChars(line, {"<", ">", " "})))

parse_report_line(fam, line) ==
    IF fam = "ad4d" THEN ad4d_parse_report_line(line)
    ELSE p10t_parse_report_line(line)


---------------------------------------------------------------------------
(* format_output.                                                          *)

Formats == {"text", "json", "pretty", "raw"}

\* The text of a non-empty dict in a format (json.dumps, pprint.pformat,
\* str, or the "KEY: value" lines of the text format), kept symbolic: it is
\* a non-empty string that starts with "{" or, in the text format, with a
\* key or "Channel", so it is no value text, no "{}" and no "(error: ...)".
Rendered(data, fmt) == [k |-> "rendered", fmt |-> fmt, data |-> data]

format_output(data, fmt) ==
    IF fmt \in {"json", "pretty", "raw"}
    THEN IF data.k = "dict" /\ data.d = <<>> THEN PyStr(<<"{", "}">>)
         ELSE Rendered(data, fmt)
    ELSE IF data.k = "dict"
         THEN IF data.d = <<>> THEN PyStr(<<"(", "no", " ", "data", ")">>)
              ELSE Rendered(data, fmt)
         ELSE data

---------------------------------------------------------------------------
(* send_command.                                                           *)

\* What the network does during one send_command call.
\*   fail: "none", or the call that raises: "connect_refused",
\*         "connect_timeout", "send" (a sendall), "recv" (a recv, not a timeout)
\*   nsend: with fail = "send", the sendall calls that succeed before it
\*   raw:  with fail = "none", the text received during the read window
NetFail(kind, n) == [fail |-> kind, nsend |-> n, raw |-> <<>>]
NetOk(raw) == [fail |-> "none", nsend |-> 0, raw |-> raw]

\* str(e) of the exception raised.
ErrText(kind) ==
    CASE kind = "connect_refused" ->
            <<"[Errno", " ", "111]", " ", "Connection", " ", "refused">>
      [] kind = "connect_timeout" -> <<"timed", " ", "out">>
      [] kind = "send" -> <<"[Errno", " ", "32]", " ", "Broken", " ", "pipe">>
      [] kind = "recv" ->
            <<"[Errno", " ", "104]", " ", "Connection", " ", "reset", " ",
              "by", " ", "peer">>

\* f"(error: {e})"
ErrorResult(kind) == PyStr(<<"(", "error", ":", " ">> \o ErrText(kind) \o <<")">>)

\* f"< {cmd} >\r\n"
WireLine(cmd) == <<"<", " ">> \o cmd \o <<" ", ">", "\r\n">>

\* The bulk query's commands, in the order they are written.
RECURSIVE GetEach(_, _)
GetEach(prefix, keys) ==
    IF keys = <<>> THEN <<>>
    ELSE <<(<<"GET", " ">> \o prefix \o <<Head(keys)>>)>> \o GetEach(prefix, Tail(keys))
RECURSIVE GetEachChannel(_, _)
GetEachChannel(chs, keys) ==
    IF chs = <<>> THEN <<>>
    ELSE GetEach(<<Head(chs), " ">>, keys) \o GetEachChannel(Tail(chs), keys)
\* A variant of the bulk query that walks both device-level lists.
BulkKeysBothLists(fam) == DEVICE_GET_ONLY_KEYS(fam) \o DEVICE_GET_SET_KEYS(fam)
\* for k in DEVICE_GET_ONLY_KEYS
BulkKeysDevice(fam) == DEVICE_GET_ONLY_KEYS(fam)
BulkCommands(fam) ==
    GetEach(<<>>, BulkKeysDevice(fam))
        \o GetEachChannel(VALID_CHANNELS(fam),
                          CHANNEL_GET_SET_KEYS(fam) \o CHANNEL_GET_ONLY_KEYS(fam))

\* Words of this model that contain the letters ERR.
ErrWords == {"ERR", "SERRA"}
ContainsERR(part) == \E i \in 1..Len(part) : part[i] \in ErrWords

ReplySep(fam) == <<"<", " ", REPLY_KEYWORD(fam), " ">>

\* Whether the list comprehension over raw.split(...) keeps a part.
KeepPart(fam, part) ==
    /\ Strip(part) # <<>>
    /\ fam = "ad4d" => ~ContainsERR(part)

RECURSIVE LinesOf(_, _)
LinesOf(fam, parts) ==
    IF parts = <<>> THEN <<>>
    ELSE (IF KeepPart(fam, Head(parts))
          THEN <<ReplySep(fam) \o Strip(Head(parts))>> ELSE <<>>)
         \o LinesOf(fam, Tail(parts))

\* lines = [f"< REP {part.strip()}" for part in raw.split("< REP ") if ...]
Lines(fam, raw) == LinesOf(fam, SplitOn(raw, ReplySep(fam)))

\* next(k for k in parsed if k != "channel")
KeyName(parsed) == (SelectSeq(parsed.d, LAMBDA it : it[1] # CHANNEL))[1][1]

\* match_key
MatchKey(parsed) ==
    LET channel == DictGet(parsed, CHANNEL)
        keyname == KeyName(parsed)
    IN  IF channel # PyNone
        THEN PyStr(<<StrOf(channel.n), " ">> \o keyname.s)
        ELSE keyname

\* Whether the loop over lines takes a parsed line as the reply; SET is sent
\* by ad4d with expect_key = None.
IsMatch(fam, parsed, expect_key) ==
    IF fam = "ad4d"
    THEN expect_key = PyNone \/ MatchKey(parsed) = expect_key
    ELSE MatchKey(parsed) = expect_key

\* What the loop returns for the line it takes.
MatchResult(fam, parsed, command, fmt) ==
    IF fam = "ad4d" /\ command # <<>> /\ Head(command) = "SET" THEN PyNone
    ELSE IF fmt # "text" THEN format_output(parsed, fmt)
    ELSE DictGet(parsed, KeyName(parsed))

\* What is returned when the loop ends without a reply.
NoMatchResult(fam, fmt) ==
    IF fmt # "text" THEN format_output(Dict(<<>>), fmt)
    ELSE IF fam = "ad4d" THEN PyNone
    ELSE PyStr(<<"(", "no", " ", "match", ")">>)

\* for line in lines: ... return ...; parsed is the head line parsed.
RECURSIVE ScanLines(_, _, _, _, _)
ScanStep(fam, lines, parsed, command, expect_key, fmt) ==
    IF parsed # PyNone /\ IsMatch(fam, parsed, expect_key)
    THEN MatchResult(fam, parsed, command, fmt)
    ELSE ScanLines(fam, Tail(lines), command, expect_key, fmt)
ScanLines(fam, lines, command, expect_key, fmt) ==
    IF lines = <<>> THEN NoMatchResult(fam, fmt)
    ELSE ScanStep(fam, lines, parse_report_line(fam, Head(lines)), command,
                  expect_key, fmt)

\* result = [parsed for each line if parsed]
RECURSIVE ParsedLines(_, _)
KeepParsed(parsed) == IF parsed = PyNone THEN <<>> ELSE <<parsed>>
ParsedLines(fam, lines) ==
    IF lines = <<>> THEN <<>>
    ELSE KeepParsed(parse_report_line(fam, Head(lines)))
             \o ParsedLines(fam, Tail(lines))

\* A variant of the merge step in which a channel's sub-dict is assigned
\* anew for each entry instead of updated.
MergeIntoAssigning(m, ch, rest) ==
    IF ch = PyNone THEN DictUpdate(m, rest) ELSE DictSet(m, ch, rest)

\* One step of the bulk merge: ch is entry.pop("channel") and rest what it
\* leaves of the entry.
MergeInto(m, ch, rest) ==
    IF ch = PyNone THEN DictUpdate(m, rest)
    ELSE IF ch \notin DictKeys(m) THEN DictSet(m, ch, rest)
    ELSE DictSet(m, ch, DictUpdate(DictGet(m, ch), rest))
MergeEntry(m, entry) ==
    MergeInto(m, DictGet(entry, CHANNEL), DictWithout(entry, CHANNEL))

\* merged = {}; for entry in result: ...
RECURSIVE MergeEntries(_, _)
MergeEntries(m, result) ==
    IF result = <<>> THEN m
    ELSE MergeEntries(MergeEntry(m, Head(result)), Tail(result))

\* The lines send_command writes when nothing fails.
WireLines(cmds) == [i \in 1..Len(cmds) |-> WireLine(cmds[i])]
Wire(fam, command, bulk) ==
    IF bulk THEN WireLines(BulkCommands(fam)) ELSE <<WireLine(command)>>

BulkResult(wire, m, fmt) ==
    [opens |-> 1, sent |-> wire, merged |-> m, ret |-> format_output(m, fmt)]

\* send_command: the sockets it opens, the lines it writes, the dict a bulk
\* query merges and the value it returns.
SendResult(fam, n, wire, command, expect_key, fmt, bulk) ==
    CASE n.fail \in {"connect_refused", "connect_timeout"} ->
            [opens |-> 1, sent |-> <<>>, merged |-> NotCalled,
             ret |-> ErrorResult(n.fail)]
      [] n.fail = "send" ->
            [opens |-> 1, sent |-> SubSeq(wire, 1, n.nsend),
             merged |-> NotCalled, ret |-> ErrorResult(n.fail)]
      [] n.fail = "recv" ->
            [opens |-> 1, sent |-> wire, merged |-> NotCalled,
             ret |-> ErrorResult(n.fail)]
      [] OTHER ->
            IF bulk
            THEN BulkResult(wire,
                            MergeEntries(Dict(<<>>),
                                         ParsedLines(fam, Lines(fam, n.raw))),
                            fmt)
            ELSE [opens |-> 1, sent |-> wire, merged |-> NotCalled,
                  ret |-> ScanLines(fam, Lines(fam, n.raw), command, expect_key, fmt)]
send_command(fam, n, command, expect_key, fmt, bulk) ==
    SendResult(fam, n, Wire(fam, command, bulk), command, expect_key, fmt, bulk)

---------------------------------------------------------------------------
(* main.                                                                   *)

\* print(x): None is printed as the text None.
Printed(v) == IF v = PyNone THEN PyStr(<<"None">>) ELSE v

\* The lines --list prints: the key, its permission tag, its level.
RECURSIVE ListLines(_, _, _)
ListLines(keys, perm, level) ==
    IF keys = <<>> THEN <<>>
    ELSE <<(<<Head(keys), perm, level>>)>> \o ListLines(Tail(keys), perm, level)
Listing(fam) ==
    [k |-> "listing",
     lines |-> ListLines(DEVICE_GET_ONLY_KEYS(fam), "read-only", "device")
            \o ListLines(DEVICE_GET_SET_KEYS(fam), "read/write", "device")
            \o ListLines(CHANNEL_GET_SET_KEYS(fam), "read/write", "channel")
            \o ListLines(CHANNEL_GET_ONLY_KEYS(fam), "read-only", "channel")]

\* The keys whose SET value ad4d wraps in braces.
brace_keys ==
    {"CHAN_NAME", "DEVICE_ID", "GROUP_CHANNEL", "GROUP_CHANNEL2",
     "TX_DEVICE_ID", "SLOT_TX_DEVICE_ID"}

\* The state an invocation ends in when it neither calls send_command nor
\* prints: the fields are overridden by what it does.
Quiet ==
    [opens |-> 0, sent |-> <<>>, ret |-> NotCalled, merged |-> NotCalled,
     out |-> NotCalled, err |-> "", exit |-> 0]
Fails(error) == [Quiet EXCEPT !.err = error, !.exit = 1]

\* output_format = "json" if args.json else args.output_format
OutputFormat(a) == IF a.json THEN "json" ELSE a.fmt

\* The loop of `--get --channel N` without --key: one send_command call per
\* channel key whose address builds, nets[i] being what the network does
\* during the call for the i-th key.
Called(r) == [Quiet EXCEPT !.opens = r.opens, !.sent = r.sent, !.ret = r.ret]
ChannelCallAt(fam, bc, n) ==
    IF ~bc.ok THEN [Quiet EXCEPT !.err = bc.error]
    ELSE Called(send_command(fam, n, <<"GET", " ">> \o bc.addr, PyStr(bc.addr),
                             "text", FALSE))
ChannelCall(fam, channel, key, n) ==
    ChannelCallAt(fam, build_command(fam, channel, key), n)

\* if value and value != "(no match)"
KeepsValue(value) ==
    Truthy(value) /\ value # PyStr(<<"(", "no", " ", "match", ")">>)

\* acc is <<opens, sent, result>> after the calls before the i-th.
RECURSIVE ChannelFold(_, _, _, _)
ChannelFold(keys, calls, i, acc) ==
    IF i > Len(keys) THEN acc
    ELSE ChannelFold(keys, calls, i + 1,
             <<acc[1] + calls[i].opens, acc[2] \o calls[i].sent,
               IF calls[i].ret # NotCalled /\ KeepsValue(calls[i].ret)
               THEN DictSet(acc[3], PyStr(<<keys[i]>>), calls[i].ret)
               ELSE acc[3]>>)

ChannelLoop(fam, channel, keys, nets) ==
    ChannelFold(keys,
                [i \in 1..Len(keys) |-> ChannelCall(fam, channel, keys[i], nets[i])],
                1, <<0, <<>>, Dict(<<>>)>>)

\* The keys the per-channel loop walks.
ChannelLoopKeys(fam) == CHANNEL_GET_SET_KEYS(fam) \o CHANNEL_GET_ONLY_KEYS(fam)

\* Whether SET refuses the key as read-only.
IsReadOnly(fam, key) == In(Upper(key), DEVICE_GET_ONLY_KEYS(fam))

\* The value text a SET command carries.
SetValue(fam, key, value) ==
    IF fam = "ad4d" /\ Upper(key) \in brace_keys
    THEN <<"{">> \o value \o <<"}">> ELSE value

\* Whether main prints what a SET returned.
PrintsSetResult(fam, result) ==
    IF fam = "ad4d" THEN result # PyNone ELSE Truthy(result)

\* What main does with the per-channel loop's <<opens, sent, result>>.
ChannelOutcome(a, acc) ==
    [Quiet EXCEPT !.opens = acc[1], !.sent = acc[2], !.merged = acc[3],
                  !.out = Printed(format_output(
                              Dict(<< <<PyInt(IntOf(a.channel)), acc[3]>> >>),
                              OutputFormat(a)))]

\* What main does with what send_command returned.
BulkOutcome(r) ==
    [Quiet EXCEPT !.opens = r.opens, !.sent = r.sent, !.ret = r.ret,
                  !.merged = r.merged, !.out = Printed(r.ret)]
GetOutcome(r) ==
    [Quiet EXCEPT !.opens = r.opens, !.sent = r.sent, !.ret = r.ret,
                  !.out = Printed(r.ret)]
SetOutcome(fam, r) ==
    [Quiet EXCEPT !.opens = r.opens, !.sent = r.sent, !.ret = r.ret,
                  !.out = IF PrintsSetResult(fam, r.ret)
                          THEN Printed(r.ret) ELSE NotCalled]

\* The part of main after build_command returned bc.
Keyed(fam, a, nets, bc) ==
    IF ~bc.ok THEN Fails(bc.error)
    ELSE IF a.set
    THEN IF IsReadOnly(fam, a.key) THEN Fails("NotWritable")
         ELSE IF a.value = PyNone THEN Fails("ValueRequired")
         ELSE SetOutcome(fam,
                  send_command(fam, nets[1],
                               <<"SET", " ">> \o bc.addr \o <<" ">>
                                   \o SetValue(fam, a.key, a.value.s),
                               IF fam = "ad4d" THEN PyNone ELSE PyStr(bc.addr),
                               OutputFormat(a), FALSE))
    ELSE IF a.get
    THEN GetOutcome(send_command(fam, nets[1], <<"GET", " ">> \o bc.addr,
                                 PyStr(bc.addr), OutputFormat(a), FALSE))
    ELSE Fails("NoVerb")

\* main of ad4d.py / p10t.py on the command line a, nets being what the
\* network does during each send_command call.
main(fam, a, nets) ==
    IF a.list THEN [Quiet EXCEPT !.out = Listing(fam)]
    ELSE IF ~a.host THEN Fails("HostRequired")
    ELSE IF a.get /\ a.key = NoArg
    THEN IF a.channel # NoArg
         THEN ChannelOutcome(a, ChannelLoop(fam, a.channel, ChannelLoopKeys(fam), nets))
         ELSE BulkOutcome(send_command(fam, nets[1], <<>>, PyNone,
                                       OutputFormat(a), TRUE))
    ELSE IF a.key = NoArg THEN Fails("AttributeError")
    ELSE Keyed(fam, a, nets, build_command(fam, a.channel, a.key))

---------------------------------------------------------------------------
(* The command lines and the device behaviours explored.                   *)

ChannelArgs == {NoArg, "0", "1", "2", "3", "4", "5"}

RegistryKeys(fam) == {ALL_KEYS(fam)[i] : i \in 1..Len(ALL_KEYS(fam))}
\* Every registry key, two lower-case spellings, and a key of no registry.
KeyArgs(fam) == RegistryKeys(fam) \cup {"frequency", "model", "NOPE"}

ValueArgs == {PyStr(<<"606.000">>), PyStr(<<"Lead", " ", "Vox">>)}

\* --output-format and --json as given together.
FormatArgs ==
    {[fmt |-> f, json |-> FALSE] : f \in Formats} \cup {[fmt |-> "text", json |-> TRUE]}

\* A command line of the program of family fam.
Args(fam, list, host, get, set, channel, key, value, f) ==
    [fam |-> fam, list |-> list, host |-> host, get |-> get, set |-> set,
     channel |-> channel, key |-> key, value |-> value, fmt |-> f.fmt,
     json |-> f.json]

\* A reply frame as the device writes it; channel is NoArg for a device key.
Frame(fam, channel, key, value) ==
    ReplySep(fam) \o (IF channel = NoArg THEN <<>> ELSE <<channel, " ">>)
        \o <<key, " ">> \o value \o <<" ", ">", "\r\n">>

\* The device's error response and a metering sample.
ErrFrame(fam) == ReplySep(fam) \o <<"ERR", " ", ">", "\r\n">>
SampleFrame == <<"<", " ", "SAMPLE", " ", "1", " ", "ALL", " ", "005", " ", ">", "\r\n">>

\* Value texts a device sends.
PlainValue == <<"518.475">>
BracedValue == <<"{", "Lead", " ", "Vox", "}">>
ErrorLikeValue == <<"{", "(", "error", ":", " ", "timed", " ", "out", ")", "}">>
ErrLettersValue == <<"SERRA">>

\* The channel and key of an address text build_command returned.
AddrChannel(addr) == IF Len(addr) = 1 THEN NoArg ELSE addr[1]
AddrKey(addr) == addr[Len(addr)]
OtherChannel(channel) == IF channel = "1" THEN "2" ELSE "1"

\* Frames that carry the requested address, with different values.
MatchingFrames(fam, addr) ==
    {Frame(fam, AddrChannel(addr), AddrKey(addr), v) :
        v \in {PlainValue, BracedValue, ErrorLikeValue, ErrLettersValue}}

\* Frames that carry another address: the same key on another channel, and
\* another key on the same channel.
OtherKey(key) == IF key = "METER_RATE" THEN "FREQUENCY" ELSE "METER_RATE"
UnrelatedFrames(fam, addr) ==
    {Frame(fam, OtherChannel(AddrChannel(addr)), AddrKey(addr), PlainValue),
     Frame(fam, AddrChannel(addr), OtherKey(AddrKey(addr)), <<"x">>)}

\* What a device may send while one command is outstanding.
SingleFrames(fam, addr) ==
    MatchingFrames(fam, addr) \cup UnrelatedFrames(fam, addr)
        \cup {ErrFrame(fam), SampleFrame}

\* What a device may send during a bulk query.
BulkFrames(fam) ==
    {Frame(fam, NoArg, IF fam = "ad4d" THEN "MODEL" ELSE "DEVICE_NAME",
           <<"{", "Unit-A", "}">>),
     Frame(fam, "1", "FREQUENCY", PlainValue),
     Frame(fam, "1", "FREQUENCY", <<"606.000">>),
     Frame(fam, "2", "FREQUENCY", PlainValue),
     Frame(fam, "1", "CHAN_NAME", BracedValue),
     Frame(fam, "7", "BOGUS", <<"x">>),
     ErrFrame(fam), SampleFrame}

\* The sequences of at most n frames of F.
RECURSIVE FrameSeqs(_, _)
FrameSeqs(F, n) ==
    IF n = 0 THEN {<<>>}
    ELSE LET shorter == FrameSeqs(F, n - 1) IN
         shorter \cup {Append(q, f) : q \in {x \in shorter : Len(x) = n - 1}, f \in F}

\* The text received when the frames of q arrive in order.
RECURSIVE Concat(_)
Concat(q) == IF q = <<>> THEN <<>> ELSE Head(q) \o Concat(Tail(q))

\* The ways a send_command call that writes ncmds commands can fail.
Failures(ncmds) ==
    {NetFail("connect_refused", 0), NetFail("connect_timeout", 0),
     NetFail("recv", 0)} \cup {NetFail("send", k) : k \in 0..(ncmds - 1)}

\* The requests whose reply stream is explored up to MaxFrames frames; for
\* every other request it is explored up to one frame.
ProbedRequests(fam) ==
    IF fam = "ad4d"
    THEN {<<"1", "FREQUENCY">>, <<"4", "frequency">>, <<NoArg, "MODEL">>}
    ELSE {<<"1", "FREQUENCY">>, <<"2", "frequency">>, <<NoArg, "DEVICE_NAME">>}
StreamDepth(fam, channel, key) ==
    IF <<channel, key>> \in ProbedRequests(fam) THEN MaxFrames ELSE 1

\* Values with a brace pair, an unmatched brace on either side, and doubled
\* braces, and the frames that carry the requested address with them.
WrappedValue == <<"{", "Unit-A", "}">>
OpenBraceValue == <<"{", "Unit-A">>
CloseBraceValue == <<"Unit-A", "}">>
DoubledValue == <<"{", "{", "Unit-A", "}", "}">>
BraceValues == {WrappedValue, OpenBraceValue, CloseBraceValue, DoubledValue}
BraceFrames(fam, addr) ==
    {Frame(fam, AddrChannel(addr), AddrKey(addr), v) : v \in BraceValues}

\* The network behaviours during a GET call.
SingleNets(fam, addr, depth) ==
    Failures(1) \cup {NetOk(Concat(q)) : q \in FrameSeqs(SingleFrames(fam, addr), depth)}
        \cup {NetOk(f) : f \in BraceFrames(fam, addr)}

\* The network behaviours during a SET call: the device echoes the address
\* set, sends something else, or stays silent.
SetNets(fam, addr) ==
    Failures(1)
        \cup {NetOk(Concat(q)) :
                q \in FrameSeqs({Frame(fam, AddrChannel(addr), AddrKey(addr), PlainValue),
                                 ErrFrame(fam)}
                                \cup UnrelatedFrames(fam, addr), 1)}

BulkNets(fam) ==
    Failures(Len(BulkCommands(fam)))
        \cup {NetOk(Concat(q)) : q \in FrameSeqs(BulkFrames(fam), MaxFrames)}

\* Per-key behaviours of the per-channel query: one key's call sees
\* behaviour o, every other key's call sees behaviour d.
KeyNet(fam, channel, key, kind) ==
    CASE kind = "match"     -> NetOk(Frame(fam, channel, key, PlainValue))
      [] kind = "silence"   -> NetOk(<<>>)
      [] kind = "unrelated" -> NetOk(Frame(fam, OtherChannel(channel), key, PlainValue))
      [] kind = "refused"   -> NetFail("connect_refused", 0)
ChannelNets(fam, channel) ==
    LET keys == ChannelLoopKeys(fam) IN
    IF ~In(channel, VALID_CHANNELS(fam)) THEN {<<>>}
    ELSE {[i \in 1..Len(keys) |->
              KeyNet(fam, channel, keys[i], IF i = j THEN o ELSE d)] :
            j \in 1..Len(keys),
            o \in {"match", "silence", "unrelated", "refused"},
            d \in {"match", "silence"}}

---------------------------------------------------------------------------
(* monitor.py: decoding of the lines a device sends.                       *)

\* Longest sequence of frames a device sends in one chunk to the monitor.
MaxChunk == 2
\* Saturation of the counters that account for what the monitor did.
MaxCount == 2

\* The --device choices of monitor.py.
Devices == {"ad4d", "p10t"}

POLL_DEVICE_KEYS ==
    <<"DEVICE_NAME", "DEVICE_ID", "MODEL", "SERIAL_NUMBER", "FW_VER",
      "ENCRYPTION_MODE", "FIRMWARE_UPDATE_PROGRESS", "EVENT_LOG_STATUS",
      "NETWORK_IP_ADDR", "NETWORK_SUBNET_MASK", "NETWORK_MAC_ADDR",
      "NETWORK_GATEWAY", "DEVICE_NOTES", "LOCATION">>
POLL_CHANNEL_KEYS ==
    <<"CHAN_NAME", "FREQUENCY", "AUDIO_GAIN", "AUDIO_MUTE", "ANTENNA_STATUS",
      "AUDIO_LEVEL_RMS", "AUDIO_LEVEL_PEAK", "TX_DEVICE_ID", "TX_BATT_MINS",
      "TX_BATT_CHARGE_PERCENT", "TX_MODEL", "TX_LOCK", "TX_TALK_SWITCH">>
\* The commands of one polling pass, in order: the device keys, then the
\* channel keys of channel 1, then those of channel 2.
POLL_COMMANDS ==
    [i \in 1..Len(POLL_DEVICE_KEYS) |-> <<"GET", " ", POLL_DEVICE_KEYS[i]>>]
        \o [i \in 1..Len(POLL_CHANNEL_KEYS) |->
                <<"GET", " ", "1", " ", POLL_CHANNEL_KEYS[i]>>]
        \o [i \in 1..Len(POLL_CHANNEL_KEYS) |->
                <<"GET", " ", "2", " ", POLL_CHANNEL_KEYS[i]>>]

\* The metric names of a SAMPLE line, in field order (handle_sample's keys).
SAMPLE_KEYS ==
    <<"CHANNEL_QUALITY", "AUDIO_LED_BITMAP", "AUDIO_LEVEL_PEAK",
      "AUDIO_LEVEL_RMS", "ANTENNA_STATUS", "RSSI_LED_BITMAP_A", "RSSI_A",
      "RSSI_LED_BITMAP_B", "RSSI_B">>

\* Words of this model that match \d+.
NumberWords ==
    {"001", "002", "003", "004", "005", "006", "007", "008", "009", "010"}
IsNumber(a) == IsDigit(a) \/ a \in NumberWords

\* The place after the run of non-whitespace (\S+), of whitespace (\s+),
\* that starts at place i of s.
RECURSIVE NonWsEnd(_, _)
NonWsEnd(s, i) == IF i <= Len(s) /\ ~IsWs(s[i]) THEN NonWsEnd(s, i + 1) ELSE i
RECURSIVE WsEnd(_, _)
WsEnd(s, i) == IF i <= Len(s) /\ IsWs(s[i]) THEN WsEnd(s, i + 1) ELSE i

\* What the monitor does to the outside, in the order it does it.
Host == "host"
DeviceStore == <<Host, ":", "device">>
ChannelStore(channel) == <<Host, ":", "channel", ":", channel>>
Hset(name, key, value) == [ev |-> "hset", name |-> name, key |-> key, value |-> value]
Log(msg) == [ev |-> "log", msg |-> msg]
Status(status) == [ev |-> "status", status |-> status]
Write(line) == [ev |-> "write", line |-> line]
Raise(error) == [ev |-> "raise", error |-> error]
ConnectEv == [ev |-> "connect"]
CloseEv == [ev |-> "close"]
SleepEv(seconds) == [ev |-> "sleep", seconds |-> seconds]
IntervalEv == [ev |-> "interval"]
ReadyEv == [ev |-> "ready"]
StoppingEv == [ev |-> "stopping"]

\* reply_device_re.match(line): < REP (\S+)\s+{([^}]*)} >
DeviceEnd(line, e1, e2, c) ==
    IF c + 2 <= Len(line) /\ line[c + 1] = " " /\ line[c + 2] = ">"
    THEN [ok |-> TRUE, key |-> SubSeq(line, 5, e1 - 1),
          value |-> SubSeq(line, e2 + 1, c - 1)]
    ELSE NoMatch
DeviceClose(line, e1, e2, closes) ==
    IF closes = {} THEN NoMatch ELSE DeviceEnd(line, e1, e2, Min(closes))
DeviceAt(line, e1, e2) ==
    IF e1 = 5 \/ e2 = e1 \/ e2 > Len(line) \/ line[e2] # "{" THEN NoMatch
    ELSE DeviceClose(line, e1, e2, {c \in (e2 + 1)..Len(line) : line[c] = "}"})
DeviceFrom(line, e1) == DeviceAt(line, e1, WsEnd(line, e1))
reply_device_re(line) ==
    IF StartsWith(line, <<"<", " ", "REP", " ">>)
    THEN DeviceFrom(line, NonWsEnd(line, 5)) ELSE NoMatch

\* reply_channel_re.match(line): < REP (\d+) (\S+)\s+(\S+) >
ChannelAt(line, e1, e2, e3) ==
    IF e1 > 7 /\ e2 > e1 /\ e3 > e2 /\ e3 + 1 <= Len(line)
          /\ line[e3] = " " /\ line[e3 + 1] = ">"
    THEN [ok |-> TRUE, channel |-> line[5], key |-> SubSeq(line, 7, e1 - 1),
          value |-> SubSeq(line, e2, e3 - 1)]
    ELSE NoMatch
ChannelValue(line, e1, e2) == ChannelAt(line, e1, e2, NonWsEnd(line, e2))
ChannelFrom(line, e1) == ChannelValue(line, e1, WsEnd(line, e1))
reply_channel_re(line) ==
    IF StartsWith(line, <<"<", " ", "REP", " ">>) /\ Len(line) >= 6
          /\ IsNumber(line[5]) /\ line[6] = " "
    THEN ChannelFrom(line, NonWsEnd(line, 7)) ELSE NoMatch

\* report_re.match(line): < REPORT (\S+)(?: (\S+))?(?: (.+))? >
\* Only whether it matches is modelled: the groups are handed on
\* positionally and the call they are handed to raises before reading one.
ReportFrom(line, e1) ==
    /\ e1 > 5
    /\ e1 + 1 <= Len(line)
    /\ line[e1] = " "
    /\ \/ line[e1 + 1] = ">"
       \/ \E p \in Occurrences(line, <<" ", ">">>) : p >= e1 + 2
report_re(line) ==
    [ok |-> StartsWith(line, <<"<", " ", "REPORT", " ">>)
                /\ ReportFrom(line, NonWsEnd(line, 5))]

\* sample_re.match(line): < SAMPLE (\d+) ALL (.+) >
SampleEnd(line, ends) ==
    IF ends = {} THEN NoMatch
    ELSE [ok |-> TRUE, channel |-> line[5], raw |-> SubSeq(line, 9, Max(ends) - 1)]
sample_re(line) ==
    IF StartsWith(line, <<"<", " ", "SAMPLE", " ">>) /\ Len(line) >= 8
          /\ IsNumber(line[5]) /\ SubSeq(line, 6, 8) = <<" ", "ALL", " ">>
    THEN SampleEnd(line, {p \in Occurrences(line, <<" ", ">">>) : p >= 10})
    ELSE NoMatch

\* line.startswith("< SAMPLE")
IsSampleLine(line) == StartsWith(line, <<"<", " ", "SAMPLE">>)

\* handle_response(host, redis_client, line, device_type)
Persist(name, key, value) == <<Hset(name, key, value), Log("metric")>>
ResponseOf(device_match, channel_match) ==
    IF device_match.ok
    THEN Persist(DeviceStore, device_match.key, device_match.value)
    ELSE IF channel_match.ok
    THEN Persist(ChannelStore(channel_match.channel), channel_match.key,
                 channel_match.value)
    ELSE <<Log("unparsed")>>
handle_response(line) == ResponseOf(reply_device_re(line), reply_channel_re(line))

\* A variant of handle_sample that writes all nine metrics of every line,
\* an empty value for a field the line does not have.
handle_sample_AllNine(channel, parts) ==
    [i \in 1..Len(SAMPLE_KEYS) |->
        Hset(ChannelStore(channel), <<SAMPLE_KEYS[i]>>,
             IF i <= Len(parts) THEN parts[i] ELSE <<>>)]
        \o <<Log("sample")>>

\* handle_sample(host, redis_client, ch_num, raw, device_type), parts being
\* raw.split(): zip(keys, parts[:len(keys)]) pairs the names with the
\* fields up to the shorter of the two.
handle_sample(channel, parts) ==
    [i \in 1..(IF Len(parts) < Len(SAMPLE_KEYS) THEN Len(parts) ELSE Len(SAMPLE_KEYS)) |->
        Hset(ChannelStore(channel), <<SAMPLE_KEYS[i]>>, parts[i])]
        \o <<Log("sample")>>

\* What follows sample_re.match: handle_sample on a match, nothing otherwise.
SampleOf(match) ==
    IF match.ok THEN handle_sample(match.channel, Words(match.raw)) ELSE <<>>

\* process_raw_data: the parts between "<", each stripped and given "< "
\* back; a SAMPLE part ends the processing of the chunk.
RECURSIVE ProcessParts(_, _)
ProcessLine(parts, i, line) ==
    IF IsSampleLine(line) THEN SampleOf(sample_re(line))
    ELSE handle_response(line) \o ProcessParts(parts, i + 1)
ProcessPart(parts, i, part) ==
    IF part = <<>> THEN ProcessParts(parts, i + 1)
    ELSE ProcessLine(parts, i, <<"<", " ">> \o part)
ProcessParts(parts, i) ==
    IF i > Len(parts) THEN <<>> ELSE ProcessPart(parts, i, Strip(parts[i]))
process_raw_data(raw) == ProcessParts(SplitOn(raw, <<"<">>), 1)

\* run_passive_monitor's call on a line report_re matches:
\* handle_response(host, redis_client, *match.groups(), device_type) passes
\* six positional arguments to a function of four, a TypeError.
PassiveReport(line) == <<Raise("TypeError")>>

\* run_passive_monitor on one line taken off the buffer.
PassiveLine(line) ==
    IF IsSampleLine(line) THEN SampleOf(sample_re(line))
    ELSE IF report_re(line).ok THEN PassiveReport(line)
    ELSE <<Log("unparsed")>>

\* while b"\n" in buffer: the lines before each newline, in order.
Newlines(buf) == {i \in 1..Len(buf) : buf[i] = "\r\n"}
RECURSIVE PassiveLines(_, _, _)
PassiveLines(buf, nl, from) ==
    IF nl = {} THEN <<>>
    ELSE PassiveLine(Strip(SubSeq(buf, from, Min(nl) - 1)))
             \o PassiveLines(buf, nl \ {Min(nl)}, Min(nl) + 1)
\* A variant that keeps nothing of a chunk that ends inside a line.
Remainder_Dropped(buf, nl) == <<>>

\* What is left in the buffer after the last newline.
Remainder(buf, nl) ==
    IF nl = {} THEN buf ELSE SubSeq(buf, Max(nl) + 1, Len(buf))

\* The calls made until one raises: the first Raise, and with the sink down
\* (sink = FALSE) the first hset, raise out of the function.
Raises(e, sink) == e.ev = "raise" \/ (~sink /\ e.ev = "hset")
Stops(events, sink) == {i \in 1..Len(events) : Raises(events[i], sink)}
Raised(e) == Raise(IF e.ev = "raise" THEN e.error ELSE "SinkError")
CutAt(events, stops) ==
    IF stops = {} THEN [did |-> events, raised |-> FALSE]
    ELSE [did |-> Append(SubSeq(events, 1, Min(stops) - 1), Raised(events[Min(stops)])),
          raised |-> TRUE]
Cut(events, sink) == CutAt(events, Stops(events, sink))

---------------------------------------------------------------------------
(* monitor.py: what a device sends to the monitor.                         *)

SampleFields ==
    <<"001", "002", "003", "004", "005", "006", "007", "008", "009", "010">>
RECURSIVE Spaced(_)
Spaced(fields) ==
    IF fields = <<>> THEN <<>> ELSE <<" ", Head(fields)>> \o Spaced(Tail(fields))
\* A metering sample of channel with the first n fields.
Sample(channel, n) ==
    <<"<", " ", "SAMPLE", " ", channel, " ", "ALL">>
        \o Spaced(SubSeq(SampleFields, 1, n)) \o <<" ", ">", "\r\n">>
Samples == {Sample(channel, n) : channel \in {"1", "2"}, n \in 1..Len(SampleFields)}

\* The reply an AD4D sends to the k-th poll command.
ReplyTo(k) ==
    IF Len(POLL_COMMANDS[k]) = 3
    THEN Frame("ad4d", NoArg, POLL_COMMANDS[k][3], <<"{", "Unit-A", "}">>)
    ELSE Frame("ad4d", POLL_COMMANDS[k][3], POLL_COMMANDS[k][5], PlainValue)

\* Frames an AD4D sends while it is polled: replies with and without
\* braces, its error response, and metering samples (init_metering turns
\* metering on).
PollFrames ==
    {Frame("ad4d", "1", "FREQUENCY", PlainValue),
     Frame("ad4d", NoArg, "DEVICE_NAME", <<"{", "Unit-A", "}">>),
     Frame("ad4d", NoArg, "ENCRYPTION_MODE", <<"OFF">>),
     Frame("ad4d", "2", "CHAN_NAME", BracedValue),
     ErrFrame("ad4d"),
     Sample("1", 3)}

\* The poll commands whose read is explored up to MaxChunk frames; the read
\* of every other command is explored with the reply to the command.
ProbedPolls == {1, 16}
PollChunks(k) ==
    IF k \in ProbedPolls
    THEN (FrameSeqs(PollFrames, MaxChunk) \ {<<>>}) \cup {<<s>> : s \in Samples}
    ELSE {<<ReplyTo(k)>>}

\* Frames a P10T sends unasked: reports, samples, a line that is neither,
\* and an empty line.
ReportFrames ==
    {Frame("p10t", "1", "FREQUENCY", PlainValue),
     Frame("p10t", NoArg, "DEVICE_NAME", <<"{", "Unit-A", "}">>),
     Sample("1", 3),
     ErrFrame("ad4d"),
     <<"\r\n">>}

\* A frame that arrives in two chunks.
SplitFrame == Sample("2", 2)
SplitHead == SubSeq(SplitFrame, 1, 5)
SplitTail == SubSeq(SplitFrame, 6, Len(SplitFrame))
\* A frame that arrives in three chunks: the tail without its line
\* terminator, and the terminator.
SplitMiddle == SubSeq(SplitFrame, 6, Len(SplitFrame) - 1)
SplitEnd == SubSeq(SplitFrame, Len(SplitFrame), Len(SplitFrame))

\* The chunks recv may return in passive mode.  A device that has sent the
\* head of a frame sends the rest next: the tail, alone or followed by
\* another frame or by the head of the next frame, or the tail in two
\* chunks.
PassiveChunks(buf) ==
    IF buf = <<>>
    THEN (FrameSeqs(ReportFrames, MaxChunk) \ {<<>>})
             \cup {<<s>> : s \in Samples} \cup {<<SplitHead>>}
    ELSE IF buf = SplitHead
    THEN {<<SplitTail>>, <<SplitMiddle>>, <<SplitTail, SplitHead>>}
             \cup {<<SplitTail, f>> : f \in ReportFrames}
    ELSE {<<SplitEnd>>}

---------------------------------------------------------------------------
(* The state machine: a process of ad4d.py or p10t.py runs main and exits. *)

NoRun ==
    [fam |-> "none", list |-> FALSE, host |-> FALSE, get |-> FALSE,
     set |-> FALSE, channel |-> NoArg, key |-> NoArg, value |-> PyNone,
     fmt |-> "text", json |-> FALSE]
TextOnly == [fmt |-> "text", json |-> FALSE]

OneShotIdle ==
    /\ args = NoRun
    /\ net = <<>>
    /\ opens = 0
    /\ sent = <<>>
    /\ ret = NotCalled
    /\ merged = NotCalled
    /\ out = NotCalled
    /\ err = ""
    /\ exit = 0

\* The account of a monitor that did nothing yet, and an environment that
\* did nothing.
NoHist ==
    [prev_note |-> "None", last_note |-> "None", attempt |-> 0, fails |-> 0,
     degraded |-> 0, unreachable |-> 0, from |-> "None", stoppings |-> 0,
     held |-> FALSE, metered |-> <<0, 0>>]
NoIo == [recv |-> "none", frames |-> <<>>, sink |-> TRUE, before |-> <<>>,
         lines |-> <<>>]

\* No monitor runs.
MonitorOff ==
    /\ device = "none"
    /\ pc = "off"
    /\ conn = "none"
    /\ shutdown_requested = FALSE
    /\ last_status = "None"
    /\ poll_index = 1
    /\ buffer = <<>>
    /\ io = NoIo
    /\ did = <<>>
    /\ hist = NoHist

Init == OneShotIdle /\ MonitorOff

\* The state a run ends in: m is what main did.
Ends(a, nets, m) ==
    /\ args' = a
    /\ net' = nets
    /\ opens' = m.opens
    /\ sent' = m.sent
    /\ ret' = m.ret
    /\ merged' = m.merged
    /\ out' = m.out
    /\ err' = m.err
    /\ exit' = m.exit
    /\ UNCHANGED <<device, pc, conn, shutdown_requested, last_status, poll_index, buffer, io, did, hist>>

\* The run of the program on command line a, nets being what the network
\* does during each send_command call of the run.
Run(a, nets) == Ends(a, nets, main(a.fam, a, nets))

\* --list
RunList ==
    /\ args = NoRun
    /\ \E fam \in Families, host \in BOOLEAN :
           Run(Args(fam, TRUE, host, FALSE, FALSE, NoArg, NoArg, PyNone, TextOnly), <<>>)

\* No --host.
RunNoHost ==
    /\ args = NoRun
    /\ \E fam \in Families, get \in BOOLEAN, set \in BOOLEAN, key \in {NoArg, "FREQUENCY"} :
           Run(Args(fam, FALSE, FALSE, get, set, NoArg, key, PyNone, TextOnly), <<>>)

\* --get without --key and without --channel: the bulk query.
RunBulk ==
    /\ args = NoRun
    /\ \E fam \in Families, f \in FormatArgs :
           \E n \in BulkNets(fam) :
               Run(Args(fam, FALSE, TRUE, TRUE, FALSE, NoArg, NoArg, PyNone, f), <<n>>)

\* --get --channel N without --key: every channel key of one channel.
RunChannel ==
    /\ args = NoRun
    /\ \E fam \in Families, f \in {TextOnly, [fmt |-> "json", json |-> FALSE]}, channel \in ChannelArgs \ {NoArg} :
           \E nets \in ChannelNets(fam, channel) :
               Run(Args(fam, FALSE, TRUE, TRUE, FALSE, channel, NoArg, PyNone, f), nets)

\* --key given, and build_command raises ValueError.
RunRejected ==
    /\ args = NoRun
    /\ \E fam \in Families, get \in BOOLEAN, set \in BOOLEAN, channel \in ChannelArgs :
           \E key \in KeyArgs(fam), value \in {PyNone, PyStr(<<"606.000">>)} :
               /\ ~build_command(fam, channel, key).ok
               /\ Run(Args(fam, FALSE, TRUE, get, set, channel, key, value, TextOnly), <<>>)

\* --set --key K [--value V] with an address that builds.
RunSet ==
    /\ args = NoRun
    /\ \E fam \in Families, f \in FormatArgs, channel \in ChannelArgs :
           \E key \in KeyArgs(fam), value \in ValueArgs \cup {PyNone}, get \in BOOLEAN :
               LET bc == build_command(fam, channel, key) IN
               /\ bc.ok
               /\ IF IsReadOnly(fam, key) \/ value = PyNone
                  THEN /\ f = TextOnly
                       /\ Run(Args(fam, FALSE, TRUE, get, TRUE, channel, key, value, f), <<>>)
                  ELSE /\ ~get
                       /\ \E n \in SetNets(fam, bc.addr) :
                            Run(Args(fam, FALSE, TRUE, get, TRUE, channel, key, value, f), <<n>>)

\* --get --key K with an address that builds.
RunGet ==
    /\ args = NoRun
    /\ \E fam \in Families, f \in FormatArgs, channel \in ChannelArgs :
           \E key \in KeyArgs(fam) :
               LET bc == build_command(fam, channel, key) IN
               /\ bc.ok
               /\ \E n \in SingleNets(fam, bc.addr, StreamDepth(fam, channel, key)) :
                    Run(Args(fam, FALSE, TRUE, TRUE, FALSE, channel, key, PyNone, f), <<n>>)

\* Neither --get nor --set, or --set without --key.
RunNoVerb ==
    /\ args = NoRun
    /\ \E fam \in Families, channel \in ChannelArgs, key \in {"FREQUENCY", "NOPE", NoArg},
          set \in BOOLEAN :
           /\ set => key = NoArg
           /\ key # NoArg => build_command(fam, channel, key).ok
           /\ Run(Args(fam, FALSE, TRUE, FALSE, set, channel, key, PyNone, TextOnly), <<>>)

\* A process runs main once and exits.
Next ==
    \/ RunList
    \/ RunNoHost
    \/ RunBulk
    \/ RunChannel
    \/ RunRejected
    \/ RunSet
    \/ RunGet
    \/ RunNoVerb

Spec == Init /\ [][Next]_vars

---------------------------------------------------------------------------
(* The state machine of monitor.py: main connects, ingests until the       *)
(* connection ends, and connects again, until a signal requests shutdown.  *)

\* The fixed retry wait: time.sleep(5) in main's exception handlers.
RETRY_SECONDS == 5

\* A variant that reports on every failure.
OnOSError_EveryTime(status) ==
    [did |-> <<Log("unreachable"), Status("waiting for device...")>>,
     last_status |-> "waiting", pc |-> "retry"]

\* A variant that goes round the loop without the retry wait.
OnOSError_NoWait(status) ==
    [did |-> IF status # "waiting"
             THEN <<Log("unreachable"), Status("waiting for device...")>>
             ELSE <<>>,
     last_status |-> "waiting", pc |-> "loop"]

\* except (OSError, socket.error): the unreachable record and the degraded
\* status are written when the status changes, then the retry wait.
OnOSError(status) ==
    [did |-> IF status # "waiting"
             THEN <<Log("unreachable"), Status("waiting for device...")>>
             ELSE <<>>,
     last_status |-> "waiting", pc |-> "retry"]

\* A variant in which an exception that is not an OSError leaves main.
OnException_Uncaught(status) ==
    [did |-> <<>>, last_status |-> status, pc |-> "exited"]

\* except Exception: the crash record, then the retry wait.
OnException(status) ==
    [did |-> <<Log("monitor crashed")>>, last_status |-> status, pc |-> "retry"]

\* After create_connection returned: the connected record, and the
\* connected status when the status changes.
Connected(status) ==
    <<Log("connected")>>
        \o (IF status # "connected" THEN <<Status("connected")>> ELSE <<>>)

\* init_metering: the two METER_RATE commands.
init_metering ==
    <<Write(<<"<", " ", "SET", " ", "1", " ", "METER_RATE", " ", "1000", " ", ">", "\n">>),
      Write(<<"<", " ", "SET", " ", "2", " ", "METER_RATE", " ", "1000", " ", ">", "\n">>)>>

\* The account of what the monitor did so far: the last two statuses
\* reported, the parity of the connection attempts made, and, over the
\* connection attempts that failed since the last that succeeded, their
\* number, the degraded statuses and unreachable records they wrote and the
\* status they began in; the stopping signals sent; and whether main's sock
\* is a socket create_connection returned and sock.close() has not closed
\* (held); and how often each of the two lines of init_metering was
\* written since the last connection was made (metered).
IsStatus(e) == e.ev = "status"
Sat(n) == IF n > MaxCount THEN MaxCount ELSE n
CountOf(events, e) == Cardinality({i \in 1..Len(events) : events[i] = e})
Noted(h, st) ==
    IF st = <<>> THEN <<h.prev_note, h.last_note>>
    ELSE IF Len(st) = 1 THEN <<h.last_note, st[1].status>>
    ELSE <<st[Len(st) - 1].status, st[Len(st)].status>>
InRun(h, n) == IF h.fails = 0 THEN 0 ELSE n
AccountOf(h, kind, events, status, notes) ==
    [prev_note |-> notes[1],
     last_note |-> notes[2],
     attempt |-> IF kind = "other" THEN h.attempt ELSE 1 - h.attempt,
     fails |-> IF kind = "failed" THEN Sat(h.fails + 1)
               ELSE IF kind = "connected" THEN 0 ELSE h.fails,
     degraded |->
         IF kind = "failed"
         THEN Sat(InRun(h, h.degraded) + CountOf(events, Status("waiting for device...")))
         ELSE IF kind = "connected" THEN 0 ELSE h.degraded,
     unreachable |->
         IF kind = "failed"
         THEN Sat(InRun(h, h.unreachable) + CountOf(events, Log("unreachable")))
         ELSE IF kind = "connected" THEN 0 ELSE h.unreachable,
     from |-> IF kind = "failed" THEN (IF h.fails = 0 THEN status ELSE h.from)
              ELSE IF kind = "connected" THEN "None" ELSE h.from,
     stoppings |-> Sat(h.stoppings + CountOf(events, StoppingEv)),
     held |-> IF CountOf(events, CloseEv) > 0 THEN FALSE
              ELSE IF kind = "connected" THEN TRUE ELSE h.held,
     metered |-> [n \in 1..2 |->
                    IF kind = "connected" THEN 0
                    ELSE Sat(h.metered[n] + CountOf(events, init_metering[n]))]]
Account(h, kind, events, status) ==
    AccountOf(h, kind, events, status, Noted(h, SelectSeq(events, IsStatus)))

\* What the environment did during a step: what recv returned, the frames
\* it carried, and whether the metric sink took the writes; and, for a read
\* of run_passive_monitor, the buffer the chunk was added to and the lines
\* the inner loop took off it.
Io(outcome, sink) ==
    [recv |-> outcome.recv, frames |-> outcome.frames, sink |-> sink,
     before |-> <<>>, lines |-> <<>>]
PassiveIo(outcome, sink, buf, lines) ==
    [recv |-> outcome.recv, frames |-> outcome.frames, sink |-> sink,
     before |-> buf, lines |-> lines]
Outcome(recv, frames) == [recv |-> recv, frames |-> frames]

MonInit ==
    /\ OneShotIdle
    /\ device \in Devices
    /\ pc = "main"
    /\ conn = "none"
    /\ shutdown_requested = FALSE
    /\ last_status = "None"
    /\ poll_index = 1
    /\ buffer = <<>>
    /\ io = NoIo
    /\ did = <<>>
    /\ hist = NoHist

\* A step of the monitor to position p: c is the connection, status is
\* last_status, k the poll command to send next, b the passive buffer, i
\* what the environment did and events what the monitor did.
To(p, c, status, k, b, i, events, kind) ==
    /\ pc' = p
    /\ conn' = c
    /\ last_status' = status
    /\ poll_index' = k
    /\ buffer' = b
    /\ io' = i
    /\ did' = events
    /\ hist' = Account(hist, kind, events, last_status)
    /\ UNCHANGED <<device, shutdown_requested>>
    /\ UNCHANGED <<args, net, opens, sent, ret, merged, out, err, exit>>

\* An exception reaches one of main's handlers h after the monitor did events.
Handled(h, i, events, kind) ==
    To(h.pc, "none", h.last_status, 1, <<>>, i, events \o h.did, kind)

\* run_polling_monitor or run_passive_monitor returns, and main closes the
\* socket and goes round its loop.
Returned(i, events) ==
    To("loop", "none", last_status, 1, <<>>, i, Append(events, CloseEv), "other")

\* A variant of the loop test that never sees the shutdown request.
Running_Always(requested) == TRUE

\* while not shutdown_requested.is_set(): the test of main's loop and of
\* the loops of run_polling_monitor and run_passive_monitor.
Running(requested) == ~requested

\* main up to its loop: the ready notification.
Start ==
    /\ pc = "main"
    /\ To("loop", "none", "None", 1, <<>>, NoIo, <<ReadyEv>>, "other")

\* One round of main's loop up to the call of the ingestion function:
\* create_connection returns or raises an OSError.
Connect ==
    /\ pc = "loop"
    /\ Running(shutdown_requested)
    /\ \E outcome \in {"connected", "refused"} :
           IF outcome = "connected"
           THEN To(IF device = "ad4d" THEN "metering" ELSE "passive", "up",
                   "connected", 1, <<>>, NoIo,
                   <<ConnectEv>> \o Connected(last_status), "connected")
           ELSE Handled(OnOSError(last_status), NoIo,
                        <<ConnectEv, Raise("OSError")>>, "failed")

\* The connection after a write to it: a write to a connection the peer
\* closed is answered with a reset.
Written(c) == IF c = "eof" THEN "reset" ELSE c

\* run_polling_monitor up to its loop.  A write to a reset connection
\* raises an OSError, which nothing before main's handler catches; the
\* reset that answers the first write may arrive before the second.
InitMetering ==
    /\ pc = "metering"
    /\ \/ /\ conn = "reset"
          /\ Handled(OnOSError(last_status), NoIo, <<Raise("OSError")>>, "other")
       \/ /\ conn = "eof"
          /\ Handled(OnOSError(last_status), NoIo,
                     <<init_metering[1], Raise("OSError")>>, "other")
       \/ /\ conn # "reset"
          /\ To("polling", Written(conn), last_status, 1, <<>>, NoIo,
                init_metering, "other")

\* What a poll_command call meets: the write fails ("unsent"), or the read
\* times out, fails, returns nothing (the peer closed, before the call or
\* between its write and its read) or returns a chunk.
PollOutcomes(c, k) ==
    IF c = "reset" THEN {Outcome("unsent", <<>>)}
    ELSE IF c = "eof" THEN {Outcome("eof", <<>>), Outcome("error", <<>>)}
    ELSE {Outcome("timeout", <<>>), Outcome("eof", <<>>)}
             \cup {Outcome("data", q) : q \in PollChunks(k)}

\* The connection after a poll_command call on connection c whose read
\* returned recv: the peer that closes between the write and the read is
\* read as the end of the stream, and a write after that is answered with a
\* reset.
AfterPoll(c, recv) == IF c = "up" /\ recv = "eof" THEN "eof" ELSE Written(c)

\* The line poll_command writes for the k-th command.
PollLine(k) == <<"<", " ">> \o POLL_COMMANDS[k] \o <<" ", ">", "\n">>

\* process_raw_data on every chunk a read returns (none when the peer closed
\* the connection), with the sink up and with the sink down.
AllPollChunks == {<<>>} \cup UNION {PollChunks(k) : k \in 1..Len(POLL_COMMANDS)}
ProcessedChunks ==
    [q \in AllPollChunks |->
        [sink \in BOOLEAN |-> Cut(process_raw_data(Concat(q)), sink)]]

\* poll_command: what it did, and "True", "False", or "raised" when
\* process_raw_data raised.
Processed(line, r) ==
    [did |-> <<Write(line)>> \o r.did,
     result |-> IF r.raised THEN "raised" ELSE "True"]
poll_command(k, outcome, sink) ==
    CASE outcome.recv = "unsent" ->
            [did |-> <<Log("polling error")>>, result |-> "False"]
      [] outcome.recv = "error" ->
            [did |-> <<Write(PollLine(k)), Log("polling error")>>, result |-> "False"]
      [] outcome.recv = "timeout" ->
            [did |-> <<Write(PollLine(k))>>, result |-> "True"]
      [] OTHER -> Processed(PollLine(k), ProcessedChunks[outcome.frames][sink])

\* The sink answers that matter to a step: it is written only on data.
Sinks(outcome) == IF outcome.recv = "data" THEN BOOLEAN ELSE {TRUE}

\* The while test of run_polling_monitor with shutdown requested.
PollReturn ==
    /\ pc = "polling"
    /\ poll_index = 1
    /\ ~Running(shutdown_requested)
    /\ Returned(NoIo, <<>>)

\* What follows a poll_command call r in run_polling_monitor and main.
Polled(r, i) ==
    IF r.result = "False" THEN Returned(i, r.did)
    ELSE IF r.result = "raised" THEN Handled(OnException(last_status), i, r.did, "other")
    ELSE IF poll_index = Len(POLL_COMMANDS)
    THEN To("interval", AfterPoll(conn, i.recv), last_status, 1, <<>>, i, r.did, "other")
    ELSE To("polling", AfterPoll(conn, i.recv), last_status, poll_index + 1, <<>>, i,
            r.did, "other")

\* One poll_command call of the for loop.
PollCommand ==
    /\ pc = "polling"
    /\ poll_index > 1 \/ Running(shutdown_requested)
    /\ \E outcome \in PollOutcomes(conn, poll_index) :
           \E sink \in Sinks(outcome) :
               Polled(poll_command(poll_index, outcome, sink), Io(outcome, sink))

\* A variant that configures the metering again before every pass.
PollSleep_Remetering ==
    /\ pc = "interval"
    /\ To("metering", conn, last_status, 1, <<>>, NoIo, <<IntervalEv>>, "other")

\* time.sleep(interval) after a pass over POLL_COMMANDS.
PollSleep ==
    /\ pc = "interval"
    /\ To("polling", conn, last_status, 1, <<>>, NoIo, <<IntervalEv>>, "other")

\* The while test of run_passive_monitor with shutdown requested.
PassiveReturn ==
    /\ pc = "passive"
    /\ ~Running(shutdown_requested)
    /\ Returned(NoIo, <<>>)

\* What recv meets in passive mode.
PassiveOutcomes(c, buf) ==
    IF c = "reset" THEN {Outcome("error", <<>>)}
    ELSE IF c = "eof" THEN {Outcome("eof", <<>>)}
    ELSE {Outcome("timeout", <<>>)} \cup {Outcome("data", q) : q \in PassiveChunks(buf)}

\* The lines the inner loop takes off the buffer: line, buffer =
\* buffer.split(b"\n", 1) while there is a newline, up to the first line
\* whose processing raises.
RECURSIVE TakenLines(_, _, _, _)
TakenFrom(buf, nl, sink, line) ==
    IF Cut(PassiveLine(line), sink).raised THEN <<line>>
    ELSE <<line>> \o TakenLines(buf, nl \ {Min(nl)}, Min(nl) + 1, sink)
TakenLines(buf, nl, from, sink) ==
    IF nl = {} THEN <<>>
    ELSE TakenFrom(buf, nl, sink, Strip(SubSeq(buf, from, Min(nl) - 1)))

\* The inner loop of run_passive_monitor on the buffer buf: what it did,
\* the buffer it leaves and the lines it took.
PassiveRound(buf, sink) ==
    [cut |-> Cut(PassiveLines(buf, Newlines(buf), 1), sink),
     buffer |-> Remainder(buf, Newlines(buf)),
     lines |-> TakenLines(buf, Newlines(buf), 1, sink)]

\* PassiveRound on every buffer and chunk, with the sink up and down.
Buffers == {<<>>, SplitHead, SplitHead \o SplitMiddle}
PassiveRounds ==
    [b \in Buffers |->
        [q \in PassiveChunks(b) |->
            [sink \in BOOLEAN |-> PassiveRound(b \o Concat(q), sink)]]]

\* What follows the inner loop r in run_passive_monitor and main.
Drained(r, i) ==
    IF r.cut.raised THEN Handled(OnException(last_status), i, r.cut.did, "other")
    ELSE To("passive", conn, last_status, 1, r.buffer, i, r.cut.did, "other")

\* One round of run_passive_monitor's loop: recv, then every complete line
\* of the buffer.
PassiveRecv ==
    /\ pc = "passive"
    /\ Running(shutdown_requested)
    /\ \E outcome \in PassiveOutcomes(conn, buffer) :
           \E sink \in Sinks(outcome) :
               CASE outcome.recv = "timeout" ->
                       To("passive", conn, last_status, 1, buffer, Io(outcome, sink),
                          <<>>, "other")
                 [] outcome.recv = "eof" -> Returned(Io(outcome, sink), <<>>)
                 [] outcome.recv = "error" ->
                       Returned(Io(outcome, sink), <<Log("read error")>>)
                 [] OTHER ->
                       Drained(PassiveRounds[buffer][outcome.frames][sink],
                               PassiveIo(outcome, sink, buffer,
                                   PassiveRounds[buffer][outcome.frames][sink].lines))

\* time.sleep(5) in a handler of main returns.
Retry ==
    /\ pc = "retry"
    /\ To("loop", "none", last_status, 1, <<>>, NoIo, <<SleepEv(RETRY_SECONDS)>>, "other")

\* main after its loop.
Stop ==
    /\ pc = "loop"
    /\ ~Running(shutdown_requested)
    /\ To("stopped", "none", last_status, 1, <<>>, NoIo,
          <<StoppingEv, Log("shutdown complete")>>, "other")

\* SIGTERM or SIGINT: handle_signal sets shutdown_requested.
Signal ==
    /\ pc \notin {"off", "stopped", "exited"}
    /\ ~shutdown_requested
    /\ shutdown_requested' = TRUE
    /\ UNCHANGED <<device, pc, conn, last_status, poll_index, buffer, io, did, hist>>
    /\ UNCHANGED <<args, net, opens, sent, ret, merged, out, err, exit>>

\* The device closes the connection, in order or with a reset.
PeerCloses ==
    /\ conn = "up"
    /\ conn' \in {"eof", "reset"}
    /\ UNCHANGED <<device, pc, shutdown_requested, last_status, poll_index, buffer, io, did, hist>>
    /\ UNCHANGED <<args, net, opens, sent, ret, merged, out, err, exit>>

\* The steps of the monitor process itself.
MonProgram ==
    \/ Start
    \/ Connect
    \/ InitMetering
    \/ PollReturn
    \/ PollCommand
    \/ PollSleep
    \/ PassiveReturn
    \/ PassiveRecv
    \/ Retry
    \/ Stop

MonNext ==
    \/ Start
    \/ Connect
    \/ InitMetering
    \/ PollReturn
    \/ PollCommand
    \/ PollSleep
    \/ PassiveReturn
    \/ PassiveRecv
    \/ Retry
    \/ Stop
    \/ Signal
    \/ PeerCloses

\* Every blocking call of the monitor returns: a step of the process that
\* can be taken is taken.  Signals and the device are not constrained.
Monitor == MonInit /\ [][MonNext]_vars /\ WF_vars(MonProgram)

---------------------------------------------------------------------------
(* Properties of the one-shot clients.                                     *)

Elems(list) == {list[i] : i \in 1..Len(list)}

\* The key sets and channel ranges the registry documents.
DeviceKeys(fam) == Elems(DEVICE_GET_ONLY_KEYS(fam)) \cup Elems(DEVICE_GET_SET_KEYS(fam))
ChannelKeys(fam) == Elems(CHANNEL_GET_SET_KEYS(fam)) \cup Elems(CHANNEL_GET_ONLY_KEYS(fam))
ReadOnlyKeys(fam) == Elems(DEVICE_GET_ONLY_KEYS(fam)) \cup Elems(CHANNEL_GET_ONLY_KEYS(fam))
ChannelRange(fam) == IF fam = "ad4d" THEN {"1", "2", "3", "4"} ELSE {"1", "2"}

\* The kinds of run a state is the end of.
KeyedRun == args.fam \in Families /\ ~args.list /\ args.host /\ args.key # NoArg
SetRun == KeyedRun /\ args.set
GetRun == KeyedRun /\ args.get /\ ~args.set
BulkRun ==
    /\ args.fam \in Families /\ ~args.list /\ args.host
    /\ args.get /\ args.key = NoArg /\ args.channel = NoArg
\* The run called send_command once and no socket call failed.
Delivered == Len(net) = 1 /\ net[1].fail = "none"

\* The scope given fits the key: a channel in range for a channel-level
\* key, no channel for a device-level key.
ValidScope ==
    IF Upper(args.key) \in ChannelKeys(args.fam)
    THEN args.channel \in ChannelRange(args.fam)
    ELSE args.channel = NoArg

\* The address requested: the key, preceded by the channel for a
\* channel-level key.
RequestedAddress ==
    IF Upper(args.key) \in ChannelKeys(args.fam)
    THEN <<args.channel, " ", Upper(args.key)>>
    ELSE <<Upper(args.key)>>

\* The frames of a received text in arrival order: every frame ends with
\* "\r\n".
NonEmpty(t) == t # <<>>
ArrivedFrames(raw) == SelectSeq(SplitOn(raw, <<"\r\n">>), NonEmpty)

\* C1: a SET of a read-only key (device-level or channel-level) with a valid
\* scope and a value fails with NotWritable, opens no socket and writes no
\* command.
C1_ReadOnlySetRejected ==
    (SetRun /\ args.value # PyNone /\ ValidScope
        /\ Upper(args.key) \in ReadOnlyKeys(args.fam))
    => (err = "NotWritable" /\ opens = 0 /\ sent = <<>>)

\* C2: a channel-level key requested with no channel or with a channel
\* outside the family's range (1-4 ad4d, 1-2 p10t) fails with InvalidScope
\* and opens no socket.
C2_BadChannelRejectedBeforeConnect ==
    (KeyedRun /\ Upper(args.key) \in ChannelKeys(args.fam)
        /\ args.channel \notin ChannelRange(args.fam))
    => (err = "InvalidScope" /\ exit = 1 /\ opens = 0 /\ sent = <<>>)

C2_OutOfRangeRejected ==
    /\ GetRun /\ args.fam = "p10t" /\ args.key = "FREQUENCY" /\ args.channel = "3"
    /\ err = "InvalidScope" /\ opens = 0

\* C3 as stated: a device-level key requested together with a channel fails
\* with InvalidScope.
C3_DeviceKeyWithScopeRejected ==
    (GetRun /\ Upper(args.key) \in DeviceKeys(args.fam) /\ args.channel # NoArg)
    => err = "InvalidScope"

\* C3 as the code has it: a GET of a device-level key given together with a
\* channel (in range or not) is accepted, the channel is ignored, and the
\* command written is the GET of the bare key.
C3_DeviceKeyScopeIgnored ==
    (GetRun /\ Upper(args.key) \in DeviceKeys(args.fam) /\ args.channel # NoArg)
    => /\ err = "" /\ opens = 1
       /\ net[1].fail \in {"none", "recv"}
            => sent = <<WireLine(<<"GET", " ", Upper(args.key)>>)>>

C3_ScopedDeviceGetSent ==
    /\ GetRun /\ args.fam = "ad4d" /\ args.key = "MODEL" /\ args.channel = "5"
    /\ sent = <<WireLine(<<"GET", " ", "MODEL">>)>>
    /\ err = ""

\* The line send_command hands to parse_report_line for a frame that
\* arrives alone.
FrameLine(fam, channel, key, value) ==
    ReplySep(fam) \o Strip(<<channel, " ", key, " ">> \o value \o <<" ", ">", "\r\n">>)
SampleValues == {PlainValue, BracedValue, ErrorLikeValue, ErrLettersValue}
DecodesTo(fam, parsed, channel, key, addr) ==
    /\ parsed # PyNone
    /\ DictGet(parsed, CHANNEL) = PyInt(IntOf(channel))
    /\ KeyName(parsed) = PyStr(<<key>>)
    /\ MatchKey(parsed) = PyStr(addr)

\* C4: for a channel-level key and a channel in range, build_command
\* succeeds, and a reply frame carrying the family's reply keyword, that
\* channel, that key and a value decodes to the same channel and key, its
\* match key being the expect key of the request.
C4_AddressRoundTrips ==
    (KeyedRun /\ Upper(args.key) \in ChannelKeys(args.fam)
        /\ args.channel \in ChannelRange(args.fam))
    => /\ build_command(args.fam, args.channel, args.key).ok
       /\ err \notin {"InvalidScope", "UnknownKey"}
       /\ \A v \in SampleValues :
            DecodesTo(args.fam,
                      parse_report_line(args.fam,
                          FrameLine(args.fam, args.channel, Upper(args.key), v)),
                      args.channel, Upper(args.key),
                      build_command(args.fam, args.channel, args.key).addr)

C4_ReplyMatchedRequest ==
    /\ GetRun /\ args.fam = "ad4d" /\ args.key = "frequency" /\ args.channel = "4"
    /\ args.fmt = "text" /\ ~args.json
    /\ net = <<NetOk(Frame("ad4d", "4", "FREQUENCY", PlainValue))>>
    /\ ret = PyStr(PlainValue)

\* The results the clients use for "no data" and for a transport error.
IsNoData(fam, fmt, r) ==
    IF fmt # "text" THEN r = PyStr(<<"{", "}">>)
    ELSE IF fam = "ad4d" THEN r = PyNone
    ELSE r = PyStr(<<"(", "no", " ", "match", ")">>)
IsTransportError(r) ==
    r.k = "str" /\ Len(r.s) > 4 /\ SubSeq(r.s, 1, 4) = <<"(", "error", ":", " ">>
\* A frame as the device wrote it carries the family's reply keyword and
\* the requested address.
CarriesRequest(fam, frame) ==
    /\ Len(frame) > 5 + Len(RequestedAddress)
    /\ SubSeq(frame, 1, 4) = ReplySep(fam)
    /\ SubSeq(frame, 5, 5 + Len(RequestedAddress)) = RequestedAddress \o <<" ">>
\* The received text holds no frame for the requested address.
NothingForRequest ==
    \A i \in 1..Len(ArrivedFrames(net[1].raw)) :
        ~CarriesRequest(args.fam, ArrivedFrames(net[1].raw)[i])

\* C5: a GET that receives no matching reply returns the no-data result, a
\* GET whose connection attempt fails returns a transport-error result, and
\* the no-data result, the transport-error result and the result of a GET
\* that received its value are told apart in every family and format.
C5_ResultsDistinguishable ==
    (GetRun /\ ValidScope /\ Len(net) = 1)
    => /\ (net[1].fail = "none" /\ NothingForRequest)
            => (IsNoData(args.fam, OutputFormat(args), ret) /\ ~IsTransportError(ret))
       /\ net[1].fail \in {"connect_refused", "connect_timeout"}
            => (IsTransportError(ret) /\ ~IsNoData(args.fam, OutputFormat(args), ret))
       /\ net[1].fail = "none" => ~IsTransportError(ret)

\* C6: a SET on which no socket call fails prints the same, whatever the
\* device sends in the read window: what it prints when the device stays
\* silent.
C6_SetOutcomeIgnoresReply ==
    (SetRun /\ Delivered)
    => /\ err = "" /\ exit = 0
       /\ out = main(args.fam, args, <<NetOk(<<>>)>>).out

\* The first arrived frame that decodes to the requested address, 0 if none.
DecodedFrame(fam, frame) == parse_report_line(fam, Strip(frame))
MatchesRequest(fam, frame) ==
    /\ DecodedFrame(fam, frame) # PyNone
    /\ MatchKey(DecodedFrame(fam, frame)) = PyStr(RequestedAddress)
FirstMatch(fam, frames) ==
    IF \E i \in 1..Len(frames) : MatchesRequest(fam, frames[i])
    THEN CHOOSE i \in 1..Len(frames) :
            /\ MatchesRequest(fam, frames[i])
            /\ \A j \in 1..(i - 1) : ~MatchesRequest(fam, frames[j])
    ELSE 0
ValueOf(parsed) == DictGet(parsed, KeyName(parsed))

\* C7: a GET of one key returns the value of the first frame, in arrival
\* order, that decodes to the requested channel and key; frames for other
\* addresses and later matching frames do not change the result.
C7_FirstMatchingFrameReturned ==
    (GetRun /\ ValidScope /\ Delivered /\ OutputFormat(args) = "text"
        /\ FirstMatch(args.fam, ArrivedFrames(net[1].raw)) # 0)
    => ret = ValueOf(DecodedFrame(args.fam,
                 ArrivedFrames(net[1].raw)[FirstMatch(args.fam,
                                               ArrivedFrames(net[1].raw))]))

\* The entries the bulk merge folds: the parsed frames in arrival order.
Result == ParsedLines(args.fam, Lines(args.fam, net[1].raw))
EntryChannel(e) == DictGet(e, CHANNEL)
\* Whether mapping m holds key under channel ch (PyNone: at top level), and
\* the value it holds there.
Holds(m, ch, key) ==
    IF ch = PyNone THEN key \in DictKeys(m)
    ELSE ch \in DictKeys(m) /\ key \in DictKeys(DictGet(m, ch))
Held(m, ch, key) ==
    IF ch = PyNone THEN DictGet(m, key) ELSE DictGet(DictGet(m, ch), key)
\* The <<channel, key>> places of a merged mapping.
Places(m) ==
    {<<PyNone, k>> : k \in {x \in DictKeys(m) : x.k = "str"}}
        \cup UNION {{<<c, k>> : k \in DictKeys(DictGet(m, c))} :
                        c \in {x \in DictKeys(m) : x.k = "int"}}
\* Two dicts are the same mapping, whatever the insertion order.
SameMapping(m1, m2) ==
    /\ Places(m1) = Places(m2)
    /\ \A pl \in Places(m1) : Held(m1, pl[1], pl[2]) = Held(m2, pl[1], pl[2])
\* The sequence q with its j-th and (j+1)-th elements exchanged.
Exchanged(q, j) ==
    [i \in 1..Len(q) |-> IF i = j THEN q[j + 1] ELSE IF i = j + 1 THEN q[j] ELSE q[i]]
\* Every exchange of two neighbouring entries merges to the same mapping;
\* the runs explore every arrival order, so this is order-independence.
OrderIndependent(result, m) ==
    \A j \in 1..(Len(result) - 1) :
        SameMapping(MergeEntries(Dict(<<>>), Exchanged(result, j)), m)
\* Two entries give the same channel and key different values.
Disagree(e1, e2) ==
    /\ EntryChannel(e1) = EntryChannel(e2)
    /\ KeyName(e1) = KeyName(e2)
    /\ ValueOf(e1) # ValueOf(e2)
Agreeing(result) ==
    \A i \in 1..Len(result), j \in 1..Len(result) : ~Disagree(result[i], result[j])

\* Mapping m holds exactly the channels and keys of the entries, each with
\* the value of the last entry that carries it.
LastWins(result, m) ==
    /\ \A pl \in Places(m) :
            \E i \in 1..Len(result) :
                /\ EntryChannel(result[i]) = pl[1]
                /\ KeyName(result[i]) = pl[2]
                /\ ValueOf(result[i]) = Held(m, pl[1], pl[2])
                /\ \A j \in (i + 1)..Len(result) : ~Disagree(result[i], result[j])
    /\ \A i \in 1..Len(result) :
            Holds(m, EntryChannel(result[i]), KeyName(result[i]))
    /\ Agreeing(result) => OrderIndependent(result, m)

\* C8 as stated: the bulk merge gives the same Snapshot for every arrival
\* order of the parsed frames, also when several frames give one channel
\* and key different values.
C8_MergeOrderIndependent ==
    (BulkRun /\ Delivered) => OrderIndependent(Result, merged)

\* C8 as the code has it: the Snapshot holds exactly the channels and keys
\* of the parsed frames, each with the value of the last frame that carries
\* it; so the merge is order-independent when no two frames give one
\* channel and key different values, and a key no frame carries is absent.
C8_MergeLastWins == (BulkRun /\ Delivered) => LastWins(Result, merged)

C8_LaterDuplicateWins ==
    /\ BulkRun /\ Delivered /\ args.fam = "ad4d"
    /\ net[1].raw = Frame("ad4d", "1", "FREQUENCY", PlainValue)
                        \o Frame("ad4d", "1", "FREQUENCY", <<"606.000">>)
    /\ Places(merged) = {<<PyInt(1), PyStr(<<"FREQUENCY">>)>>}
    /\ Held(merged, PyInt(1), PyStr(<<"FREQUENCY">>)) = PyStr(<<"606.000">>)

\* C9: every key of the Snapshot a bulk query returns is a key of the
\* family's registry at its level, and every channel of it is in the
\* family's range.
C9_SnapshotWithinRegistry ==
    (BulkRun /\ Delivered)
    => \A pl \in Places(merged) :
          IF pl[1] = PyNone
          THEN pl[2] \in {PyStr(<<k>>) : k \in DeviceKeys(args.fam)}
          ELSE /\ pl[1] \in {PyInt(IntOf(c)) : c \in ChannelRange(args.fam)}
               /\ pl[2] \in {PyStr(<<k>>) : k \in ChannelKeys(args.fam)}

\* The GET lines of the whole registry: one per device-level key and one
\* per channel-level key and channel in range.
RegistryGets(fam) ==
    {WireLine(<<"GET", " ", k>>) : k \in DeviceKeys(fam)}
        \cup {WireLine(<<"GET", " ", c, " ", k>>) :
                c \in ChannelRange(fam), k \in ChannelKeys(fam)}

\* C10: a bulk query opens one connection and never writes a command
\* twice; when the connection is made and every write succeeds, the commands
\* written are exactly one GET per device-level key of the registry and one
\* per channel-level key and channel in range.
C10_BulkWritesRegistryOnce ==
    BulkRun
    => /\ opens = 1
       /\ \A i \in 1..Len(sent), j \in 1..Len(sent) : sent[i] = sent[j] => i = j
       /\ Elems(sent) \subseteq RegistryGets(args.fam)
       /\ net[1].fail \in {"none", "recv"} => Elems(sent) = RegistryGets(args.fam)

C10_WholeRegistryWritten ==
    /\ BulkRun /\ Delivered /\ args.fam = "ad4d"
    /\ opens = 1
    /\ Len(sent) = Cardinality(RegistryGets("ad4d"))
    /\ sent[1] = WireLine(<<"GET", " ", "DEVICE_ID">>)

---------------------------------------------------------------------------
(* Properties of the monitor.                                              *)

\* The step of main that attempts a connection.
ConnectStep == pc = "loop" /\ pc' \in {"metering", "passive", "retry"}

\* The connection ended mid-stream and the ingestion function returned:
\* the read met the end of the stream or an error, or the write failed.
MidStreamClose == pc = "loop" /\ io.recv \in {"eof", "error", "unsent"}

\* C11: after a connection closed mid-stream no connection attempt is made
\* before the retry wait: the step that follows the return to Disconnected
\* is never a connection attempt.
C11_RetryWaitAfterClose == [][~(MidStreamClose /\ ConnectStep)]_vars

\* The monitor holds a connection.
InSession == pc \in {"metering", "polling", "interval", "passive"}

\* A runtime error has happened: main is in one of its handlers (a failed
\* connection, a write that failed, an error raised while a metric was
\* decoded or persisted), the ingestion function returned on the end of the
\* stream or a read or write error, or the device has closed the
\* connection the monitor still holds.
AfterError == pc = "retry" \/ MidStreamClose \/ (InSession /\ conn # "up")

\* C12: without a shutdown request the monitor never terminates: Stopped is
\* entered only after shutdown was requested and main is left in no other
\* way, and after any runtime error another connection attempt is
\* eventually made unless shutdown is requested first.
C12_ReconnectsUntilShutdown ==
    /\ [](pc \in {"stopped", "exited"} => pc = "stopped" /\ shutdown_requested)
    /\ \A b \in {0, 1} :
           (AfterError /\ hist.attempt = b /\ ~shutdown_requested)
               ~> (hist.attempt # b \/ shutdown_requested)

\* A metric could not be decoded or persisted, and main is in its handler.
C12_CrashedAndWaiting ==
    /\ pc = "retry"
    /\ ~shutdown_requested
    /\ did # <<>>
    /\ did[Len(did)] = Log("monitor crashed")

\* No two consecutive status notifications carry the same status.
StatusChanges == hist.last_note # "None" => hist.prev_note # hist.last_note

\* C13 as stated: the status reporter is called once per status change, and
\* the connection attempts that failed in a row wrote exactly one degraded
\* status and one unreachable record.
C13_OneDegradedPerFailureRun ==
    /\ StatusChanges
    /\ hist.fails >= 1 => hist.degraded = 1 /\ hist.unreachable = 1

\* C13: the status reporter is called once per status change, and the
\* connection attempts that failed in a row wrote one degraded status and
\* one unreachable record when they began in another status than degraded,
\* and none when the status was degraded already (a write that failed on an
\* established connection had reported it).
C13_StatusReportedOnChange ==
    /\ StatusChanges
    /\ hist.fails >= 1 =>
           /\ hist.unreachable = hist.degraded
           /\ hist.degraded = IF hist.from = "waiting" THEN 0 ELSE 1

\* Connection attempts failed in a row, after a connection had been made,
\* and one degraded status was reported for them.
C13_RepeatedFailuresOneStatus ==
    /\ hist.fails = MaxCount
    /\ hist.from = "connected"
    /\ hist.degraded = 1
    /\ hist.last_note = "waiting for device..."
    /\ pc = "retry"

\* C14: once shutdown is requested the monitor reaches Stopped, from every
\* state and in both ingestion modes, provided every blocking call returns;
\* Stopped is terminal (nothing is connected to, written or persisted after
\* it: the monitor takes no further step), and stopping is signalled
\* exactly once, on entering it.
C14_ShutdownStops ==
    /\ shutdown_requested ~> pc = "stopped"
    /\ [][pc = "stopped" =>
            UNCHANGED <<pc, conn, last_status, poll_index, buffer, io, did, hist>>]_vars
    /\ [](hist.stoppings = IF pc = "stopped" THEN 1 ELSE 0)

\* A polling monitor that had connected was asked to shut down and stopped.
C14_PollingMonitorStopped ==
    /\ pc = "stopped"
    /\ device = "ad4d"
    /\ shutdown_requested
    /\ hist.last_note = "connected"
    /\ did = <<StoppingEv, Log("shutdown complete")>>

\* The sink writes the monitor made during its last step.
IsHset(e) == e.ev = "hset"
Hsets(events) == SelectSeq(events, IsHset)
IsRaise(e) == e.ev = "raise"

\* The last step read the lines of q off an empty buffer, the sink being up.
Ingested(q) == io.recv = "data" /\ io.sink /\ io.frames = q

\* The metrics of a sample line of channel with the first n fields: the
\* i-th field under the i-th name, for the first min(n, 9) fields.
SampleMetrics(channel, n) ==
    [i \in 1..(IF n < 9 THEN n ELSE 9) |->
        Hset(ChannelStore(channel), <<SAMPLE_KEYS[i]>>, <<SampleFields[i]>>)]

\* C15: a sample line with n fields emits exactly min(n, 9) metrics, the
\* i-th field under the i-th name, all under the channel of the line, and
\* raises nothing, also when the line is short; in polling and in passive
\* mode, and when the line arrives in two chunks.
C15_SampleEmitsFirstNine ==
    /\ \A channel \in {"1", "2"}, n \in 1..Len(SampleFields) :
           Ingested(<<Sample(channel, n)>>) =>
               /\ Hsets(did) = SampleMetrics(channel, n)
               /\ SelectSeq(did, IsRaise) = <<>>
               /\ pc \in {"polling", "interval", "passive"}
    /\ Ingested(<<SplitTail>>) =>
           /\ Hsets(did) = SampleMetrics("2", 2)
           /\ pc = "passive"

\* A sample line with more than nine fields was ingested: nine metrics.
C15_LongSampleIngested ==
    /\ Ingested(<<Sample("2", 10)>>)
    /\ Len(Hsets(did)) = 9
    /\ did[9] = Hset(ChannelStore("2"), <<"RSSI_B">>, <<"009">>)

---------------------------------------------------------------------------
(* Properties of the one-shot clients: brace-delimited values.             *)

\* A text-format GET of a registry key during which the device sent exactly
\* one frame, carrying the requested address and value v.
GotValue(fam, v) ==
    /\ GetRun /\ args.fam = fam /\ OutputFormat(args) = "text" /\ ValidScope
    /\ net = <<NetOk(Frame(fam, AddrChannel(RequestedAddress),
                           AddrKey(RequestedAddress), v))>>

\* v without its outermost braces when it starts with "{" and ends with "}".
StripOnePair(v) ==
    IF Len(v) >= 2 /\ Head(v) = "{" /\ v[Len(v)] = "}"
    THEN SubSeq(v, 2, Len(v) - 1) ELSE v

\* C16: for ad4d, a direct-reply frame with a brace-wrapped value decodes to
\* the value without exactly one matching brace pair; a brace without its
\* partner is no pair and stays, of doubled braces one pair goes, and a
\* value without braces is returned unchanged.
C16_OneBracePairStripped ==
    \A v \in BraceValues \cup {PlainValue} :
        GotValue("ad4d", v) => ret = PyStr(StripOnePair(v))

\* C17: for p10t, the REPORT frame of a brace-delimited value decodes to the
\* value without its braces: "< REPORT DEVICE_NAME {Unit-A} >" gives no
\* channel, key DEVICE_NAME and value Unit-A, and a GET returns Unit-A.
C17_ReportBracesStripped ==
    GotValue("p10t", WrappedValue)
    => /\ ret = PyStr(<<"Unit-A">>)
       /\ DecodedFrame("p10t", ArrivedFrames(net[1].raw)[1])
            = Dict2(CHANNEL,
                    IF AddrChannel(RequestedAddress) = NoArg THEN PyNone
                    ELSE PyInt(IntOf(AddrChannel(RequestedAddress))),
                    PyStr(<<AddrKey(RequestedAddress)>>), PyStr(<<"Unit-A">>))

---------------------------------------------------------------------------
(* Properties of the monitor: what is persisted.                           *)

\* Whether the monitor of a device reads a line as a reply or a report: the
\* polling monitor with the two reply patterns, the passive one with
\* report_re.
MonitorDecodes(dev, line) ==
    IF dev = "ad4d" THEN reply_device_re(line).ok \/ reply_channel_re(line).ok
    ELSE report_re(line).ok

\* The store key of a scope: host:device without a channel, host:channel:N
\* with channel N.
StoreOf(channel) ==
    IF channel = NoArg THEN DeviceStore ELSE ChannelStore(channel)

\* Scope, key and value of frames a device of either family sends.
ReplyParts ==
    {<<"1", "FREQUENCY", PlainValue>>, <<NoArg, "DEVICE_NAME", WrappedValue>>}

\* C18: every reply or report frame the monitor decodes is persisted as
\* exactly one field, named by the key and holding the value, under
\* host:device without a channel and host:channel:N with channel N, in
\* polling mode and in passive mode.
C18_DecodedFramePersisted ==
    \A dev \in Devices, p \in ReplyParts :
        (/\ device = dev
         /\ Ingested(<<Frame(dev, p[1], p[2], p[3])>>)
         /\ MonitorDecodes(dev, Strip(Frame(dev, p[1], p[2], p[3]))))
        => Hsets(did) = <<Hset(StoreOf(p[1]), <<p[2]>>, StripOnePair(p[3]))>>

\* C19: in passive mode a read that returned data, whatever lines it
\* completes (samples, reports, lines that are neither), raises nothing and
\* leaves the monitor ingesting on the same connection.
C19_PassiveLinesNeverFatal ==
    (device = "p10t" /\ io.recv = "data" /\ io.sink)
    => (pc = "passive" /\ SelectSeq(did, IsRaise) = <<>>)

\* The metric a frame gives when it is the only frame of a chunk.
ReplyMetric(frame) == Hsets(handle_response(Strip(frame)))
Forwarded(events, metrics) ==
    \A j \in 1..Len(metrics) : \E n \in 1..Len(events) : events[n] = metrics[j]

\* C20: in polling mode every well-formed reply frame of a chunk read is
\* decoded and forwarded to the sink, whatever frames precede it in the
\* chunk (samples and unparsable frames included).
C20_EveryReplyForwarded ==
    (device = "ad4d" /\ io.recv = "data" /\ io.sink)
    => \A i \in 1..Len(io.frames) : Forwarded(did, ReplyMetric(io.frames[i]))

---------------------------------------------------------------------------
(* Properties of the monitor: leaving ingestion.                           *)

\* C21: in both modes a read that returns the end of the stream ends the
\* ingestion on that connection: the ingestion function returns and main
\* closes the socket, so that no command is written to it and no read is
\* made on it afterwards.
C21_EndOfStreamEndsIngestion ==
    io.recv = "eof"
    => (pc = "loop" /\ conn = "none" /\ did # <<>> /\ did[Len(did)] = CloseEv)

\* C22: however the monitor leaves ingestion, the socket of the connection
\* is closed before main is back at its loop, that is before the next
\* connection attempt and before Stopped.
C22_SocketClosedOnLeaving ==
    pc \in {"loop", "stopped"} => ~hist.held

\* A poll_command call that writes its command, and the sleep between two
\* passes over POLL_COMMANDS.
IsWrite(e) == e.ev = "write"
PollStep ==
    /\ pc = "polling"
    /\ <<pc, poll_index>>' # <<pc, poll_index>>
    /\ SelectSeq(did', IsWrite) # <<>>
IntervalStep == pc = "interval" /\ pc' = "polling"

\* C23: the shutdown flag is tested at every blocking call of the polling
\* monitor: once shutdown is requested it writes no further poll command
\* and does not sleep the interval between two passes, it leaves ingestion
\* with its next step.
C23_ShutdownSeenAtEveryCall ==
    [][(device = "ad4d" /\ shutdown_requested) => ~(PollStep \/ IntervalStep)]_vars

---------------------------------------------------------------------------
(* Properties of the monitor: lines and chunks.                            *)

\* The stream a read of the passive monitor completes: what was buffered,
\* followed by the chunk.  Its lines are its pieces before each line
\* terminator, stripped; what follows the last terminator is no line yet.
StreamOf(i) == i.before \o Concat(i.frames)
Pieces(stream) == SplitOn(stream, <<"\r\n">>)
Terminated(stream) ==
    [n \in 1..(Len(Pieces(stream)) - 1) |-> Strip(Pieces(stream)[n])]
Unterminated(stream) == Pieces(stream)[Len(Pieces(stream))]
IsPrefix(s, t) == Len(s) <= Len(t) /\ s = SubSeq(t, 1, Len(s))
PassiveRead == device = "p10t" /\ io.recv = "data"

---------------------------------------------------------------------------
(* Properties of the monitor: the commands written.                        *)

\* The address of a command given by its words: what follows the verb,
\* without the value of a SET.
AddressWords(words) ==
    IF words[1] = <<"SET">> THEN SubSeq(words, 2, Len(words) - 1) ELSE Tail(words)
\* Whether an address is a device-level key of the family's registry, or a
\* channel of the family's range followed by a channel-level key of it.
LegalAddress(fam, addr) ==
    \/ Len(addr) = 1 /\ addr[1] \in {<<k>> : k \in DeviceKeys(fam)}
    \/ /\ Len(addr) = 2
       /\ addr[1] \in {<<c>> : c \in ChannelRange(fam)}
       /\ addr[2] \in {<<k>> : k \in ChannelKeys(fam)}
LegalCommand(fam, command) == LegalAddress(fam, AddressWords(Words(command)))
LegalLine(fam, line) ==
    LegalCommand(fam, StripChars(line, {"<", ">", " ", "\n", "\r\n"}))

\* C25: every command written to a socket addresses a key of the family's
\* registry with a scope legal for it; here the lines the polling monitor
\* writes to an AD4D, init_metering's and those of POLL_COMMANDS.
C25_CommandsAddressRegistry ==
    \A n \in 1..Len(did) : IsWrite(did[n]) => LegalLine("ad4d", did[n].line)

---------------------------------------------------------------------------
(* Properties of the monitor: connections.                                 *)

\* The last step wrote a poll command, or a line of init_metering.
WrotePoll == \E n \in 1..Len(did) : IsWrite(did[n]) /\ did[n].line[3] = "GET"
WroteMetering == \E n \in 1..Len(did), m \in 1..2 : did[n] = init_metering[m]

\* C26: on a connection of the polling monitor each of the two METER_RATE
\* commands is written once and never again, and both are written before
\* the first poll command of the connection; they are written again only
\* on a new connection.
C26_MeteringOncePerConnection ==
    device = "ad4d"
    => /\ hist.metered[1] <= 1 /\ hist.metered[2] <= hist.metered[1]
       /\ pc = "metering" => hist.metered = <<0, 0>>
       /\ pc \in {"polling", "interval"} => hist.metered = <<1, 1>>
       /\ WrotePoll => (hist.metered = <<1, 1>> /\ ~WroteMetering)

\* A second pass over the poll list begins on a connection configured once.
C26_SecondPassSameConnection ==
    /\ device = "ad4d" /\ pc = "polling" /\ poll_index = 1
    /\ did = <<IntervalEv>>
    /\ hist.metered = <<1, 1>>

\* A failed connection attempt: create_connection raised.
FailedAttempt ==
    Len(did) >= 2 /\ did[1] = ConnectEv /\ did[2] = Raise("OSError")

\* C27: a failed connection attempt leaves the monitor disconnected and
\* waiting, and a connection attempt that follows a failed one is made
\* right after the retry wait of RETRY_SECONDS: no two failed attempts
\* without the wait between them.
C27_RetryWaitAfterFailedConnect ==
    /\ [](FailedAttempt => (pc = "retry" /\ conn = "none"))
    /\ [][(ConnectStep /\ hist.fails >= 1) => did = <<SleepEv(RETRY_SECONDS)>>]_vars
    /\ [][pc = "retry" /\ pc' # "retry" => did' = <<SleepEv(RETRY_SECONDS)>>]_vars

\* Two attempts failed in a row and the monitor waited after the second.
C27_WaitedAfterSecondFailure ==
    /\ hist.fails = 2 /\ pc = "loop" /\ did = <<SleepEv(RETRY_SECONDS)>>
    /\ hist.from = "None"

---------------------------------------------------------------------------
(* Properties of the one-shot clients: the per-channel query, the          *)
(* permissions of the registry, the error filter.                          *)

\* A run of --get --channel N without --key in which every key's call was
\* made.
ChannelRun ==
    /\ args.fam \in Families /\ ~args.list /\ args.host /\ args.get
    /\ args.key = NoArg /\ args.channel # NoArg
    /\ merged # NotCalled
    /\ Len(net) = Len(ChannelLoopKeys(args.fam))

\* The call for a key received no reply for it: a socket call failed, or
\* no frame that arrived decodes to the key's address on the channel.
NoReplyFor(fam, channel, key, n) ==
    \/ n.fail # "none"
    \/ \A i \in 1..Len(ArrivedFrames(n.raw)) :
           \/ DecodedFrame(fam, ArrivedFrames(n.raw)[i]) = PyNone
           \/ MatchKey(DecodedFrame(fam, ArrivedFrames(n.raw)[i]))
                  # PyStr(<<channel, " ", key>>)

\* C28: the mapping of the per-channel query has an entry for a key only if
\* a matching reply for the key was received: a transport error or a call
\* without data for the key leaves no entry.
C28_EntryOnlyForReply ==
    ChannelRun
    => \A i \in 1..Len(net) :
           NoReplyFor(args.fam, args.channel, ChannelLoopKeys(args.fam)[i], net[i])
           => PyStr(<<ChannelLoopKeys(args.fam)[i]>>) \notin DictKeys(merged)

\* The keys the registry lists as read/write.
ReadWriteKeys(fam) ==
    Elems(DEVICE_GET_SET_KEYS(fam)) \cup Elems(CHANNEL_GET_SET_KEYS(fam))

\* C29: a key has one permission: a key listed as read/write is not listed
\* as read-only, and a SET of it with a valid scope and a value is not
\* refused as read-only: the connection is opened and, when no socket call
\* fails, the command is written.
C29_ReadWriteKeyAccepted ==
    (SetRun /\ args.value # PyNone /\ ValidScope
        /\ Upper(args.key) \in ReadWriteKeys(args.fam))
    => /\ Upper(args.key) \notin ReadOnlyKeys(args.fam)
       /\ err # "NotWritable"
       /\ opens = 1
       /\ Delivered => sent # <<>>

\* C30: for ad4d the error filter discards the device's error responses
\* only: a reply frame for the requested address is returned whatever its
\* value is, also when the value contains the letters ERR.
C30_ReplyKeptWhateverItsValue ==
    \A v \in {PlainValue, ErrorLikeValue, ErrLettersValue} :
        GotValue("ad4d", v) => ret = PyStr(StripOnePair(v))

=============================================================================
